---------------------------- MODULE Spec2Model ----------------------------
(***************************************************************************)
(* A model of the content-rewriting proxy: the origin codec, the request   *)
(* router and handleProxy (the http-proxy-middleware variant and the       *)
(* native http variant), and the dual-backend history store.               *)
(*                                                                         *)
(* Text is modelled as a sequence of code points (ASCII letters are their  *)
(* ASCII code), a Buffer as a sequence of bytes 0..255.                    *)
(***************************************************************************)
EXTENDS Integers, Sequences, FiniteSets, TLC

(***************************************************************************)
(* Bounds of the model.                                                    *)
(***************************************************************************)
\* longest origin text (in code points) the codec specification draws
MaxOriginLen == 5
\* longest identifier (in characters) the codec specification draws
MaxIdLen == 4
\* recordHistory calls in one behaviour of the store specifications
MaxRecords == 4
\* process restarts in one behaviour of the store specification
MaxRestarts == 1
\* seconds the clock advances in one behaviour
MaxClock == 1
\* The three size limits of the program, scaled down so that a store can
\* grow past each of them; their order is the source's (200 < 1000 < 5000).
\* '200', the default of /api/history's limit (part_003:805)
ApiDefaultLimit == 1
\* 1000, the ceiling /api/history puts on limit (part_003:805)
ApiMaxLimit == 2
\* 5000, the entries persistMemory keeps in the snapshot (part_002:331)
KeepLast == 3

(***************************************************************************)
(* Generic helpers on sequences.                                           *)
(***************************************************************************)
IsAlpha(c) == (c >= 65 /\ c <= 90) \/ (c >= 97 /\ c <= 122)

IsDigit(c) == c >= 48 /\ c <= 57

SeqsUpTo(S, n) == UNION {[1..k -> S] : k \in 0..n}

Reverse(s) == [i \in 1..Len(s) |-> s[Len(s) + 1 - i]]

RECURSIVE Flatten(_)
Flatten(ss) == IF ss = <<>> THEN <<>> ELSE Head(ss) \o Flatten(Tail(ss))

\* String.prototype.replace(/x/g, y) for a one-character pattern
ReplaceAll(s, from, to) == [i \in 1..Len(s) |-> IF s[i] = from THEN to ELSE s[i]]

\* String.prototype.replace(/=+$/, '')
RECURSIVE StripTrailingEq(_)
StripTrailingEq(s) ==
  IF s # <<>> /\ s[Len(s)] = 61 THEN StripTrailingEq(SubSeq(s, 1, Len(s) - 1)) ELSE s

\* '='.repeat(n)
EqRepeat(n) == [i \in 1..n |-> 61]

(***************************************************************************)
(* UTF-8: Buffer.from(text, 'utf8') and buf.toString('utf8').              *)
(***************************************************************************)
ReplacementChar == <<65533>>

Utf8Bytes(cp) ==
  IF cp < 128 THEN <<cp>>
  ELSE IF cp < 2048 THEN <<192 + (cp \div 64), 128 + (cp % 64)>>
  ELSE <<224 + (cp \div 4096), 128 + ((cp \div 64) % 64), 128 + (cp % 64)>>

Utf8Encode(text) == Flatten([i \in 1..Len(text) |-> Utf8Bytes(text[i])])

IsCont(b) == b >= 128 /\ b <= 191

\* the second byte a three-byte lead admits (no overlong forms, no surrogates)
SecondOk(lead, b) ==
  /\ IsCont(b)
  /\ (lead = 224 => b >= 160)
  /\ (lead = 237 => b <= 159)

\* toString('utf8') never throws: an ill-formed subsequence becomes U+FFFD
RECURSIVE Utf8Decode(_)
Utf8Decode(bytes) ==
  IF bytes = <<>> THEN <<>>
  ELSE LET b0 == bytes[1]
           n  == Len(bytes)
       IN  IF b0 < 128 THEN <<b0>> \o Utf8Decode(Tail(bytes))
           ELSE IF b0 >= 194 /\ b0 <= 223
             THEN IF n >= 2 /\ IsCont(bytes[2])
                  THEN <<(b0 - 192) * 64 + (bytes[2] - 128)>>
                         \o Utf8Decode(SubSeq(bytes, 3, n))
                  ELSE ReplacementChar \o Utf8Decode(Tail(bytes))
           ELSE IF b0 >= 224 /\ b0 <= 239
             THEN IF n >= 2 /\ SecondOk(b0, bytes[2])
                  THEN IF n >= 3 /\ IsCont(bytes[3])
                       THEN <<(b0 - 224) * 4096 + (bytes[2] - 128) * 64 + (bytes[3] - 128)>>
                              \o Utf8Decode(SubSeq(bytes, 4, n))
                       ELSE ReplacementChar \o Utf8Decode(SubSeq(bytes, 3, n))
                  ELSE ReplacementChar \o Utf8Decode(Tail(bytes))
           ELSE ReplacementChar \o Utf8Decode(Tail(bytes))

(***************************************************************************)
(* Base64: buf.toString('base64' | 'base64url') and                        *)
(* Buffer.from(text, 'base64' | 'base64url').                              *)
(***************************************************************************)
\* the character of a sextet: A-Z a-z 0-9, then '+' '/' or (url) '-' '_'
B64Char(v, url) ==
  IF v < 26 THEN 65 + v
  ELSE IF v < 52 THEN 97 + (v - 26)
  ELSE IF v < 62 THEN 48 + (v - 52)
  ELSE IF v = 62 THEN (IF url THEN 45 ELSE 43)
  ELSE (IF url THEN 95 ELSE 47)

\* the sextet of a character, -1 for a character of neither alphabet; the
\* decoder of Buffer.from accepts both alphabets under both encoding names
Unbase64(c) ==
  IF c >= 65 /\ c <= 90 THEN c - 65
  ELSE IF c >= 97 /\ c <= 122 THEN c - 97 + 26
  ELSE IF c >= 48 /\ c <= 57 THEN c - 48 + 52
  ELSE IF c = 43 \/ c = 45 THEN 62
  ELSE IF c = 47 \/ c = 95 THEN 63
  ELSE -1

RECURSIVE B64Groups(_, _)
B64Groups(bytes, url) ==
  LET n == Len(bytes)
  IN  IF n = 0 THEN <<>>
      ELSE IF n = 1 THEN
        <<B64Char(bytes[1] \div 4, url), B64Char((bytes[1] % 4) * 16, url)>>
        \o (IF url THEN <<>> ELSE <<61, 61>>)
      ELSE IF n = 2 THEN
        <<B64Char(bytes[1] \div 4, url),
          B64Char((bytes[1] % 4) * 16 + (bytes[2] \div 16), url),
          B64Char((bytes[2] % 16) * 4, url)>>
        \o (IF url THEN <<>> ELSE <<61>>)
      ELSE
        <<B64Char(bytes[1] \div 4, url),
          B64Char((bytes[1] % 4) * 16 + (bytes[2] \div 16), url),
          B64Char((bytes[2] % 16) * 4 + (bytes[3] \div 64), url),
          B64Char(bytes[3] % 64, url)>>
        \o B64Groups(SubSeq(bytes, 4, n), url)

\* buf.toString('base64'): the standard alphabet, '=' padded
ToBase64(bytes) == B64Groups(bytes, FALSE)

\* buf.toString('base64url'): the URL-safe alphabet, no padding
ToBase64Url(bytes) == B64Groups(bytes, TRUE)

\* the sextets Buffer.from reads: decoding stops at the first '=', and a
\* character of neither alphabet is skipped, never an error
RECURSIVE B64Sextets(_)
B64Sextets(text) ==
  IF text = <<>> \/ text[1] = 61 THEN <<>>
  ELSE IF Unbase64(text[1]) < 0 THEN B64Sextets(Tail(text))
  ELSE <<Unbase64(text[1])>> \o B64Sextets(Tail(text))

RECURSIVE SextetsToBytes(_)
SextetsToBytes(sx) ==
  LET n == Len(sx)
  IN  IF n < 2 THEN <<>>
      ELSE IF n = 2 THEN <<sx[1] * 4 + (sx[2] \div 16)>>
      ELSE IF n = 3 THEN <<sx[1] * 4 + (sx[2] \div 16), (sx[2] % 16) * 16 + (sx[3] \div 4)>>
      ELSE <<sx[1] * 4 + (sx[2] \div 16),
             (sx[2] % 16) * 16 + (sx[3] \div 4),
             (sx[3] % 4) * 64 + sx[4]>>
           \o SextetsToBytes(SubSeq(sx, 5, n))

\* Buffer.from(text, 'base64') and Buffer.from(text, 'base64url')
FromBase64(text) == SextetsToBytes(B64Sextets(text))

(***************************************************************************)
(* The origin codec, in its two implementations.  null is modelled as the  *)
(* value Null; the catch branch of decodeOrigin is reached only when the   *)
(* try block throws, and nothing in it throws for a string argument.       *)
(***************************************************************************)
Null == <<-1>>

\* encodeOriginManual without .replace(/\//g,'_')
encodeOriginManualKeepSlash(origin) ==
  StripTrailingEq(ReplaceAll(ToBase64(Utf8Encode(origin)), 43, 45))

\* part_002: base64, then '+' -> '-', '/' -> '_', trailing '=' stripped
encodeOriginManual(origin) ==
  StripTrailingEq(ReplaceAll(ReplaceAll(ToBase64(Utf8Encode(origin)), 43, 45), 47, 95))

\* part_002: '-' -> '+', '_' -> '/', re-pad to a multiple of four, decode
decodeOriginManual(id) ==
  LET b64 == ReplaceAll(ReplaceAll(id, 45, 43), 95, 47)
      pad == IF Len(b64) % 4 = 0 THEN <<>> ELSE EqRepeat(4 - (Len(b64) % 4))
  IN  Utf8Decode(FromBase64(b64 \o pad))

\* part_003: Buffer.from(origin, 'utf8').toString('base64url')
encodeOriginUrl(origin) == ToBase64Url(Utf8Encode(origin))

\* part_003: Buffer.from(id, 'base64url').toString('utf8')
decodeOriginUrl(id) == Utf8Decode(FromBase64(id))

\* the codec of a server variant: "manual" (part_002) or "url" (part_003)
encodeOrigin(codec, origin) ==
  IF codec = "manual" THEN encodeOriginManual(origin) ELSE encodeOriginUrl(origin)

decodeOrigin(codec, id) ==
  IF codec = "manual" THEN decodeOriginManual(id) ELSE decodeOriginUrl(id)


(***************************************************************************)
(* State.                                                                  *)
(***************************************************************************)
VARIABLES
  \* the codec under test: which implementation, the origin text and the
  \* identifier it works on, the decoded text, and how far it got
  cCodec, cOrigin, cId, cDecoded, cPhase

codecVars == <<cCodec, cOrigin, cId, cDecoded, cPhase>>

VARIABLES
  \* which server file runs: "mw2" (part_002), "mw3" (part_003, first
  \* listing), "native" (part_003, second listing)
  server,
  \* historyStore.js: its module state
  mode, mem, dirty,
  \* the history table of proxy.db, in insertion order
  dbRows,
  \* history.json: whether the file exists, and the entries it holds
  jsonFile,
  \* "loading" until initHistoryStore has completed, then "ready"
  storePhase,
  \* the wall clock in seconds, the entries recorded so far (nanoid's
  \* identifiers are modelled as the numbers 1, 2, ...) and the restarts
  now, nextId, restarts,
  \* the result of the read of the store just made
  out,
  \* whether persistMemory's console.error has reported a failed write that
  \* no later write of this process has made good
  logged

storeVars ==
  <<server, mode, mem, dirty, dbRows, jsonFile, storePhase, now, nextId, restarts, out,
    logged>>

VARIABLES
  \* the proxy attempt being served: "idle" (none), "active", or "crashed"
  \* (an exception left a handler uncaught)
  pc,
  \* the request and the state handleProxy's closures keep for it
  attempt,
  \* the response to the client
  res,
  \* the requests taken so far
  attempts

proxyVars == <<pc, attempt, res, attempts>>

VARIABLES
  \* the response whose headers handleProxy rewrites: the target of the
  \* request, the set-cookie element and the location the upstream sent,
  \* what the client is sent for them, and the target the /go route resolves
  \* when the client follows the location it was sent
  hTarget, upCookie, upLocation, downCookie, downLocation, followed,
  \* "idle", "received", "rewritten", "followed"
  hPhase

headerVars == <<hTarget, upCookie, upLocation, downCookie, downLocation, followed, hPhase>>

VARIABLES
  \* the request handleProxy is called for, as far as the upstream
  \* connection goes, and the options that connection is made with
  tlsReq, tlsConn

tlsVars == <<tlsReq, tlsConn>>

VARIABLES
  \* the page whose body the 'end' handler holds in chunks, and what the
  \* handler sends the client for it
  page, served

pageVars == <<page, served>>

VARIABLES
  \* the page rewriteHtml is called for: the text of the target it was
  \* fetched from, its body, the body rewriteHtml returns for it, and what
  \* rewriteHtml returns for that body
  dBase, doc, once, twice,
  \* "idle", "fetched", "rewritten", "again"
  dPhase

docVars == <<dBase, doc, once, twice, dPhase>>

VARIABLES
  \* the headers of the client's request and the headers the upstream
  \* request is sent with, each a sequence of <<name, value>>; empty when
  \* there is no request, or none sent yet
  clientHeaders, upHeaders,
  \* the client's request as far as its method and body go, and the
  \* upstream request made for it
  clientReq, upReq

reqVars == <<clientHeaders, upHeaders, clientReq, upReq>>

VARIABLES
  \* ProxyBrowser, the page script of the browser view: this.tabs, each tab
  \* with the content element created for it (el numbers the elements,
  \* content tells what the element holds); this.activeTab; the iframe
  \* loads and history fetches that have not completed, each with what
  \* its callbacks captured; and the elements created so far
  tabs, activeTab, loads, opened

browserVars == <<tabs, activeTab, loads, opened>>

\* what the store's actions, the codec's and the proxy's leave alone
nonStoreVars == <<codecVars, proxyVars, headerVars, tlsVars, pageVars, docVars, reqVars, browserVars>>

nonCodecVars == <<storeVars, proxyVars, headerVars, tlsVars, pageVars, docVars, reqVars, browserVars>>

nonProxyVars == <<codecVars, headerVars, tlsVars, pageVars, docVars, reqVars, browserVars>>

vars ==
  <<codecVars, storeVars, proxyVars, headerVars, tlsVars, pageVars, docVars, reqVars, browserVars>>

\* no request: the fields of a request the router reads
NoRequest ==
  [route |-> "none", target |-> Null, rawFlag |-> Null, oid |-> <<>>, rest |-> <<>>,
   referer |-> FALSE]

\* no attempt: what handleProxy and its callbacks keep per request.
\*   up        the upstream request: "none", "connecting" (sent, no response
\*             yet), "destroyed" (destroyed before a response, its 'error'
\*             pending), "streaming" (response headers received), "aborting"
\*             (the socket failed or was destroyed during the body, the
\*             response stream's 'error' pending), "closed"
\*   ended     the flag of that name of onProxyRes
\*   safety    whether onProxyRes's safety timer is armed
\*   recorded  the status of each recordHistory call made for the attempt
\*   issued    whether an upstream request was created
\*   timedOut  whether the request timed out before any response
\*   clientGone  whether the client has closed its connection
NoAttempt ==
  [request |-> NoRequest, target |-> <<>>, host |-> <<>>, raw |-> FALSE,
   up |-> "none", status |-> 0, isHtml |-> FALSE, chunks |-> 0,
   ended |-> FALSE, safety |-> FALSE, start |-> 0,
   recorded |-> <<>>, issued |-> FALSE, timedOut |-> FALSE, clientGone |-> FALSE]

\* a response nothing was written to; statusCode is 200 until set
NoRes ==
  [headersSent |-> FALSE, finished |-> FALSE, statusCode |-> 200, body |-> "none",
   error |-> "", location |-> <<>>]

ProxyIdle == pc = "idle" /\ attempt = NoAttempt /\ res = NoRes /\ attempts = 0

\* no request, and no upstream connection made yet
NoTlsReq == [route |-> "none", target |-> <<>>, insecure |-> Null]

NoConn ==
  [insecure |-> FALSE,
   options |-> [https |-> FALSE, client |-> "none",
                agent |-> [name |-> "none", rejectUnauthorized |-> FALSE],
                secure |-> "unset"],
   rejectUnauthorized |-> FALSE]

\* no page, and nothing sent
NoPage == [status |-> 0, enc |-> Null, coding |-> "identity", rewriteThrows |-> FALSE]

NoServed ==
  [answered |-> FALSE, statusCode |-> 0, contentEncoding |-> Null,
   contentLength |-> FALSE, bytes |-> "none", rewritten |-> FALSE]

\* no page to rewrite, and no request whose headers are forwarded
\* no request, and no upstream request sent
NoClientReq == [method |-> "", type |-> "", body |-> Null]

NoUpReq == [sent |-> FALSE, method |-> "", body |-> Null]

\* the browser view is not open
BrowserIdle == tabs = <<>> /\ activeTab = 0 /\ loads = {} /\ opened = 0

DocIdle ==
  /\ dBase = Null /\ doc = Null /\ once = Null /\ twice = Null /\ dPhase = "idle"
  /\ clientHeaders = <<>> /\ upHeaders = <<>>
  /\ clientReq = NoClientReq /\ upReq = NoUpReq
  /\ BrowserIdle

HeadersIdle ==
  /\ hTarget = Null /\ upCookie = Null /\ upLocation = Null
  /\ downCookie = Null /\ downLocation = Null /\ followed = Null
  /\ hPhase = "idle"
  /\ tlsReq = NoTlsReq /\ tlsConn = NoConn
  /\ page = NoPage /\ served = NoServed
  /\ DocIdle

(***************************************************************************)
(* The codec applied to drawn inputs: an origin text that is encoded and   *)
(* then decoded, or an identifier a client presents in /go/<id>.           *)
(***************************************************************************)
Codecs == {"manual", "url"}

\* 'a' ':' '/' U+00FF U+4E2D: one-, two- and three-byte code points whose
\* encodings produce the sextets 62 and 63
OriginChars == {97, 58, 47, 255, 20013}

\* 'Y' 'T' 'o' '_' 'w' of the alphabet, '!' outside it, '=' the padding
IdChars == {89, 84, 111, 95, 119, 33, 61}

Origins == SeqsUpTo(OriginChars, MaxOriginLen) \ {<<>>}

PresentedIds == SeqsUpTo(IdChars, MaxIdLen)

\* the other components at rest
StoreIdle ==
  /\ server = "native" /\ mode = "memory" /\ mem = <<>> /\ dirty = FALSE
  /\ dbRows = <<>> /\ jsonFile = [exists |-> FALSE, entries |-> <<>>]
  /\ storePhase = "loading"
  /\ now = 0 /\ nextId = 1 /\ restarts = 0
  /\ out = [op |-> "none", limit |-> [nan |-> TRUE, v |-> 0], threw |-> FALSE,
            rows |-> <<>>,
            stats |-> [total |-> 0, distinct_hosts |-> 0,
                       avg_duration |-> [null |-> TRUE, num |-> 0, den |-> 1]]]
  /\ logged = FALSE

CodecIdle ==
  /\ cCodec = "url" /\ cOrigin = Null /\ cId = Null /\ cDecoded = Null
  /\ cPhase = "idle"

CodecInit ==
  /\ StoreIdle /\ ProxyIdle /\ HeadersIdle
  /\ cCodec \in Codecs
  /\ cDecoded = Null
  /\ \/ cOrigin \in Origins /\ cId = Null /\ cPhase = "origin"
     \/ cOrigin = Null /\ cId \in PresentedIds /\ cPhase = "presented"

\* id = encodeOrigin(origin)
Encode ==
  /\ cPhase = "origin"
  /\ cId' = encodeOrigin(cCodec, cOrigin)
  /\ cPhase' = "encoded"
  /\ UNCHANGED <<nonCodecVars, cCodec, cOrigin, cDecoded>>

\* origin = decodeOrigin(id), of an identifier encodeOrigin made
DecodeEncoded ==
  /\ cPhase = "encoded"
  /\ cDecoded' = decodeOrigin(cCodec, cId)
  /\ cPhase' = "roundtrip"
  /\ UNCHANGED <<nonCodecVars, cCodec, cOrigin, cId>>

\* origin = decodeOrigin(id), of an identifier a client presented
DecodePresented ==
  /\ cPhase = "presented"
  /\ cDecoded' = decodeOrigin(cCodec, cId)
  /\ cPhase' = "decoded"
  /\ UNCHANGED <<nonCodecVars, cCodec, cOrigin, cId>>

CodecNext == Encode \/ DecodeEncoded \/ DecodePresented

SpecCodec == CodecInit /\ [][CodecNext]_vars

(***************************************************************************)
(* JavaScript numbers, as far as the limit of a history read needs them:   *)
(* an integer or NaN.                                                      *)
(***************************************************************************)
Num(n) == [nan |-> FALSE, v |-> n]

NaN == [nan |-> TRUE, v |-> 0]

Min(a, b) == IF a <= b THEN a ELSE b

Max(a, b) == IF a >= b THEN a ELSE b

\* Math.min(x, c): NaN when x is NaN
MathMin(x, c) == IF x.nan THEN NaN ELSE Num(Min(x.v, c))

RECURSIVE SkipSpaces(_)
SkipSpaces(s) == IF s # <<>> /\ s[1] = 32 THEN SkipSpaces(Tail(s)) ELSE s

RECURSIVE LeadingDigits(_)
LeadingDigits(s) ==
  IF s # <<>> /\ IsDigit(s[1]) THEN <<s[1]>> \o LeadingDigits(Tail(s)) ELSE <<>>

RECURSIVE DigitsValue(_)
DigitsValue(d) ==
  IF d = <<>> THEN 0
  ELSE 10 * DigitsValue(SubSeq(d, 1, Len(d) - 1)) + (d[Len(d)] - 48)

\* parseInt(text, 10): leading blanks, a sign, then the leading digits; NaN
\* when there is no digit
ParseInt(text) ==
  LET t      == SkipSpaces(text)
      signed == t # <<>> /\ t[1] \in {43, 45}
      digits == LeadingDigits(IF signed THEN Tail(t) ELSE t)
  IN  IF digits = <<>> THEN NaN
      ELSE IF signed /\ t[1] = 45 THEN Num(0 - DigitsValue(digits))
      ELSE Num(DigitsValue(digits))

\* Array.prototype.slice(start): the elements from the relative index on
SliceFrom(arr, start) ==
  LET n == Len(arr)
      k == IF start.nan THEN 0
           ELSE IF start.v < 0 THEN Max(n + start.v, 0)
           ELSE Min(start.v, n)
  IN  SubSeq(arr, k + 1, n)

\* -x
Negate(x) == IF x.nan THEN NaN ELSE Num(0 - x.v)

(***************************************************************************)
(* historyStore.js                                                         *)
(***************************************************************************)
Servers == {"mw2", "mw3", "native"}

\* part_002 awaits initHistoryStore() before it listens; part_003 calls it
\* without await, so requests can be served while it is still loading
AwaitsInit(srv) == srv = "mw2"

Hosts == {"a.test", "b.test"}

\* duration_ms: NoDuration is a missing (null) duration
NoDuration == -1

Durations == {NoDuration, 20}

\* persistMemory without the mode/dirty guard's effect on the list: the
\* snapshot is mem.slice(-5000)
Snapshot(list) == SliceFrom(list, Num(0 - KeepLast))

\* persistMemory with `dirty = false` moved after the try block: a failed
\* write clears the flag too
persistMemoryClearsDirty(ok) ==
  IF mode # "memory" \/ ~dirty
  THEN UNCHANGED <<jsonFile, dirty, logged>>
  ELSE IF ok
       THEN /\ jsonFile' = [exists |-> TRUE, entries |-> Snapshot(mem)]
            /\ dirty' = FALSE
            /\ logged' = FALSE
       ELSE UNCHANGED jsonFile /\ dirty' = FALSE /\ logged' = TRUE

\* persistMemory(): the interval tick and the 'exit' handler; ok tells
\* whether writeFileSync succeeds
persistMemory(ok) ==
  IF mode # "memory" \/ ~dirty
  THEN UNCHANGED <<jsonFile, dirty, logged>>
  ELSE IF ok
       THEN /\ jsonFile' = [exists |-> TRUE, entries |-> Snapshot(mem)]
            /\ dirty' = FALSE
            /\ logged' = FALSE
       ELSE UNCHANGED <<jsonFile, dirty>> /\ logged' = TRUE

\* the entry recordHistory builds; created_at is CURRENT_TIMESTAMP in the
\* table and new Date() in the list
NewEntry(url, host, status, duration) ==
  [id |-> nextId, url |-> url, target_host |-> host, status |-> status,
   duration_ms |-> duration, created_at |-> now]

\* an insert that puts the row before the rows the table holds
SqliteInsertFirst(e) == dbRows' = <<e>> \o dbRows

\* insertStmt.run({...})
SqliteInsert(e) == dbRows' = Append(dbRows, e)

\* mem.push({...}) without `dirty = true`
MemoryPushKeepsFlag(e) == mem' = Append(mem, e) /\ dirty' = dirty

\* mem.push({...}); dirty = true
MemoryPush(e) == mem' = Append(mem, e) /\ dirty' = TRUE

\* recordHistory({...}): one row inserted, or one entry pushed
recordHistory(url, host, status, duration) ==
  /\ nextId' = nextId + 1
  /\ IF mode = "sqlite"
     THEN SqliteInsert(NewEntry(url, host, status, duration)) /\ UNCHANGED <<mem, dirty>>
     ELSE MemoryPush(NewEntry(url, host, status, duration)) /\ UNCHANGED dbRows

\* the orders ORDER BY created_at DESC allows: rows of one second tie, and
\* SQL leaves the order of ties open
SqlOrders(rows) ==
  {[i \in 1..Len(rows) |-> rows[p[i]]] : p \in
     {q \in Permutations(1..Len(rows)) :
        \A i, j \in 1..Len(rows) :
          i < j => rows[q[i]].created_at >= rows[q[j]].created_at}}

\* LIMIT ?: a negative limit is no limit
SqlLimit(rows, n) == IF n < 0 THEN rows ELSE SubSeq(rows, 1, Min(n, Len(rows)))

\* recentStmt.all(limit): the results the query may give; NaN binds as
\* NULL, which LIMIT rejects, and the call throws
RecentSqlite(rows, limit) ==
  IF limit.nan THEN {[threw |-> TRUE, rows |-> <<>>]}
  ELSE {[threw |-> FALSE, rows |-> SqlLimit(o, limit.v)] : o \in SqlOrders(rows)}

\* mem.slice(-limit).reverse()
RecentMemory(list, limit) ==
  {[threw |-> FALSE, rows |-> Reverse(SliceFrom(list, Negate(limit)))]}

\* getRecentHistory(limit)
getRecentHistory(limit) ==
  IF mode = "sqlite" THEN RecentSqlite(dbRows, limit) ELSE RecentMemory(mem, limit)

RECURSIVE SumDurations(_, _)
SumDurations(list, missing) ==
  IF list = <<>> THEN 0
  ELSE (IF list[1].duration_ms = NoDuration THEN missing ELSE list[1].duration_ms)
       + SumDurations(Tail(list), missing)

HostsOf(list) == {list[i].target_host : i \in 1..Len(list)}

\* an average is the fraction num/den, or NullAvg for SQL's NULL
NullAvg == [null |-> TRUE, num |-> 0, den |-> 1]

Avg(num, den) == [null |-> FALSE, num |-> num, den |-> den]

\* statsStmt.get(): COUNT(*), COUNT(DISTINCT target_host), AVG(duration_ms);
\* AVG skips NULL and is NULL when no row has a duration
StatsSqlite(rows) ==
  LET timed == SelectSeq(rows, LAMBDA r : r.duration_ms # NoDuration)
  IN  [total |-> Len(rows),
       distinct_hosts |-> Cardinality(HostsOf(rows)),
       avg_duration |-> IF timed = <<>> THEN NullAvg
                        ELSE Avg(SumDurations(timed, 0), Len(timed))]

\* the linear scan: a missing duration counts as 0, an empty list averages 0
StatsMemory(list) ==
  [total |-> Len(list),
   distinct_hosts |-> Cardinality(HostsOf(list)),
   avg_duration |-> IF Len(list) # 0 THEN Avg(SumDurations(list, 0), Len(list))
                    ELSE Avg(0, 1)]

\* getStats()
getStats == IF mode = "sqlite" THEN StatsSqlite(dbRows) ELSE StatsMemory(mem)

\* getMode()
getMode == mode

(***************************************************************************)
(* The store driven by its callers: the specification of historyStore.js.  *)
(***************************************************************************)
NoStats == [total |-> 0, distinct_hosts |-> 0, avg_duration |-> NullAvg]

\* no read has been made since the last change
NoOut == [op |-> "none", limit |-> NaN, threw |-> FALSE, rows |-> <<>>, stats |-> NoStats]

StoreStart ==
  /\ mode = "memory" /\ mem = <<>> /\ dirty = FALSE
  /\ dbRows = <<>> /\ jsonFile = [exists |-> FALSE, entries |-> <<>>]
  /\ storePhase = "loading"
  /\ now = 0 /\ nextId = 1 /\ restarts = 0
  /\ out = NoOut
  /\ logged = FALSE

\* A handler runs to completion: the value it read is handed to its caller
\* (rendered, or sent as JSON) before the next event is taken.
Quiet == out.op = "none"

ReadReturn ==
  /\ out.op # "none"
  /\ out' = NoOut
  /\ UNCHANGED <<nonStoreVars, server, mode, mem, dirty, dbRows, jsonFile, storePhase, now, nextId, restarts, logged>>

\* requests are served once the server listens
Serving == storePhase = "ready" \/ ~AwaitsInit(server)

\* initHistoryStore(): better-sqlite3 loads, the table exists, the
\* statements are prepared
InitSqlite ==
  /\ Quiet
  /\ storePhase = "loading"
  /\ mode' = "sqlite"
  /\ storePhase' = "ready"
  /\ UNCHANGED <<nonStoreVars, server, mem, dirty, dbRows, jsonFile, now, nextId, restarts, logged>>
  /\ out' = NoOut

\* the catch branch without its load of history.json
InitFallbackNoLoad ==
  /\ Quiet
  /\ storePhase = "loading"
  /\ mode' = "memory"
  /\ storePhase' = "ready"
  /\ UNCHANGED <<nonStoreVars, server, mem, dirty, dbRows, jsonFile, now, nextId, restarts, logged>>
  /\ out' = NoOut

\* initHistoryStore(): the catch branch, with history.json loaded when it
\* exists
InitFallback ==
  /\ Quiet
  /\ storePhase = "loading"
  /\ mode' = "memory"
  /\ mem' = IF jsonFile.exists THEN jsonFile.entries ELSE mem
  /\ storePhase' = "ready"
  /\ UNCHANGED <<nonStoreVars, server, dirty, dbRows, jsonFile, now, nextId, restarts, logged>>
  /\ out' = NoOut

\* a caller records one entry
Record(host, duration) ==
  /\ Quiet /\ Serving
  /\ nextId <= MaxRecords
  /\ recordHistory(<<>>, host, 200, duration)
  /\ UNCHANGED <<nonStoreVars, server, mode, jsonFile, storePhase, now, restarts, logged>>
  /\ out' = NoOut

\* setInterval(persistMemory, 10_000), registered by the catch branch
PersistTick(ok) ==
  /\ Quiet
  /\ storePhase = "ready"
  /\ mode = "memory"
  /\ persistMemory(ok)
  /\ UNCHANGED <<nonStoreVars, server, mode, mem, dbRows, storePhase, now, nextId, restarts>>
  /\ out' = NoOut

\* a caller reads the recent entries
GetRecentHistory(n) ==
  /\ Quiet /\ Serving
  /\ \E r \in getRecentHistory(Num(n)) :
       out' = [op |-> "recent", limit |-> Num(n), threw |-> r.threw, rows |-> r.rows,
               stats |-> NoStats]
  /\ UNCHANGED <<nonStoreVars, server, mode, mem, dirty, dbRows, jsonFile, storePhase, now, nextId, restarts, logged>>

\* GET /api/history?limit=q:
\* Math.min(parseInt(req.query.limit || '200', 10), 1000)
ApiLimit(q) ==
  MathMin(IF q = Null \/ q = <<>> THEN Num(ApiDefaultLimit) ELSE ParseInt(q), ApiMaxLimit)

ApiHistory(q) ==
  /\ Quiet /\ Serving
  /\ \E r \in getRecentHistory(ApiLimit(q)) :
       out' = [op |-> "api", limit |-> ApiLimit(q), threw |-> r.threw, rows |-> r.rows,
               stats |-> NoStats]
  /\ UNCHANGED <<nonStoreVars, server, mode, mem, dirty, dbRows, jsonFile, storePhase, now, nextId, restarts, logged>>

\* a caller reads the statistics
GetStats ==
  /\ Quiet /\ Serving
  /\ out' = [op |-> "stats", limit |-> NaN, threw |-> FALSE, rows |-> <<>>,
             stats |-> getStats]
  /\ UNCHANGED <<nonStoreVars, server, mode, mem, dirty, dbRows, jsonFile, storePhase, now, nextId, restarts, logged>>

\* a second passes
Tick ==
  /\ Quiet
  /\ now < MaxClock
  /\ now' = now + 1
  /\ UNCHANGED <<nonStoreVars, server, mode, mem, dirty, dbRows, jsonFile, storePhase, nextId, restarts, logged>>
  /\ out' = NoOut

\* the process exits (the 'exit' handler of the fallback snapshots) and is
\* started again: the module state is fresh, the files stay
Restart(ok) ==
  /\ Quiet
  /\ restarts < MaxRestarts
  /\ storePhase = "ready"
  /\ restarts' = restarts + 1
  /\ IF mode = "memory" /\ dirty /\ ok
     THEN jsonFile' = [exists |-> TRUE, entries |-> Snapshot(mem)]
     ELSE UNCHANGED jsonFile
  /\ mode' = "memory" /\ mem' = <<>> /\ dirty' = FALSE
  /\ storePhase' = "loading"
  /\ out' = NoOut
  /\ UNCHANGED <<nonStoreVars, server, dbRows, now, nextId>>
  /\ logged' = FALSE

\* the limit parameter of the requests: none, '', '0', '2', '9', '-2', 'x'
\* and '2x'
LimitQueries ==
  {Null, <<>>, <<48>>, <<50>>, <<57>>, <<45, 50>>, <<120>>, <<50, 120>>}

\* what the callers of the store specification record: a timed request to
\* one host, and one to another host whose duration is missing
RecordKinds == {<<"a.test", 20>>, <<"b.test", NoDuration>>}

StoreInit == server \in {"mw2", "native"} /\ StoreStart /\ CodecIdle /\ ProxyIdle /\ HeadersIdle

StoreNext ==
  \/ InitSqlite
  \/ InitFallback
  \/ \E k \in RecordKinds : Record(k[1], k[2])
  \/ \E ok \in BOOLEAN : PersistTick(ok)
  \/ \E n \in 0..(MaxRecords + 1) : GetRecentHistory(n)
  \/ \E q \in LimitQueries : ApiHistory(q)
  \/ GetStats
  \/ ReadReturn
  \/ Tick
  \/ \E ok \in BOOLEAN : Restart(ok)

SpecStore == StoreInit /\ [][StoreNext]_vars

(***************************************************************************)
(* Two processes, one in memory mode and one in sqlite mode, given the     *)
(* same recordHistory calls: mem is the list of the first, dbRows the      *)
(* table of the second.                                                    *)
(***************************************************************************)
EquivInit ==
  /\ server = "mw2" /\ StoreStart /\ CodecIdle /\ ProxyIdle /\ HeadersIdle

RecordBoth(host, duration) ==
  /\ nextId <= MaxRecords
  /\ nextId' = nextId + 1
  /\ MemoryPush(NewEntry(<<>>, host, 200, duration))
  /\ SqliteInsert(NewEntry(<<>>, host, 200, duration))
  /\ UNCHANGED <<nonStoreVars, server, mode, jsonFile, storePhase, now, restarts, out, logged>>

EquivNext ==
  \/ \E h \in Hosts, d \in Durations : RecordBoth(h, d)
  \/ Tick

SpecEquiv == EquivInit /\ [][EquivNext]_vars

(***************************************************************************)
(* Text helpers, and new URL(text) for the texts the router meets: a       *)
(* scheme, and for the special schemes a host; credentials, ports,         *)
(* percent-encoding and dot segments are left out, the requests drawn      *)
(* hold none.                                                              *)
(***************************************************************************)
\* String.prototype.toLowerCase, on ASCII
LowerCase(s) == [i \in 1..Len(s) |-> IF s[i] >= 65 /\ s[i] <= 90 THEN s[i] + 32 ELSE s[i]]

\* String.prototype.startsWith
StartsWith(s, p) == Len(s) >= Len(p) /\ SubSeq(s, 1, Len(p)) = p

\* String.prototype.includes
Includes(s, sub) ==
  \E i \in 1..(Len(s) - Len(sub) + 1) : SubSeq(s, i, i + Len(sub) - 1) = sub

\* the index of the ':' that ends the scheme of s, 0 when s has no scheme
SchemeEnd(s) ==
  LET colons == {i \in 2..Len(s) : s[i] = 58}
      first  == CHOOSE i \in colons : \A j \in colons : i <= j
  IN  IF s = <<>> \/ colons = {} THEN 0
      ELSE IF /\ IsAlpha(s[1])
              /\ \A k \in 2..(first - 1) :
                   IsAlpha(s[k]) \/ IsDigit(s[k]) \/ s[k] \in {43, 45, 46}
           THEN first
           ELSE 0

\* http, https, ws, wss, ftp: the schemes whose URL needs a host
SpecialSchemes ==
  {<<104, 116, 116, 112>>, <<104, 116, 116, 112, 115>>, <<119, 115>>,
   <<119, 115, 115>>, <<102, 116, 112>>}

IsHostChar(c) == IsAlpha(c) \/ IsDigit(c) \/ c \in {45, 46}

\* what new URL(text) throws on
InvalidUrl ==
  [ok |-> FALSE, protocol |-> <<>>, host |-> <<>>, origin |-> <<>>, rest |-> <<>>]

\* the one element of a set of one: Only({F(x) : x \in {e}}) is F of the
\* value of e
Only(S) == CHOOSE x \in S : TRUE

\* how many characters lead to the authority behind the scheme: a special
\* scheme skips every leading slash; another scheme has an authority only
\* behind "//"
AuthoritySkip(scheme, after) ==
  IF scheme \in SpecialSchemes
  THEN CHOOSE i \in 0..Len(after) :
         /\ \A k \in 1..i : after[k] \in {47, 92}
         /\ (i = Len(after) \/ after[i + 1] \notin {47, 92})
  ELSE IF StartsWith(after, <<47, 47>>) THEN 2 ELSE 0

\* where the host ends in what follows the skipped characters
HostEnd(auth) ==
  IF \A i \in 1..Len(auth) : auth[i] \notin {47, 92, 63, 35} THEN Len(auth)
  ELSE (CHOOSE i \in 1..Len(auth) :
          /\ auth[i] \in {47, 92, 63, 35}
          /\ \A j \in 1..(i - 1) : auth[j] \notin {47, 92, 63, 35}) - 1

UrlRecord(scheme, after, skip, host, tail) ==
  IF scheme \in SpecialSchemes
  THEN IF host = <<>> \/ \E i \in 1..Len(host) : ~IsHostChar(host[i])
       THEN InvalidUrl
       ELSE [ok |-> TRUE, protocol |-> scheme \o <<58>>, host |-> host,
             origin |-> scheme \o <<58, 47, 47>> \o host,
             rest |-> IF tail = <<>> \/ tail[1] \in {63, 35}
                      THEN <<47>> \o tail ELSE tail]
  ELSE [ok |-> TRUE, protocol |-> scheme \o <<58>>,
        host |-> IF skip = 2 THEN host ELSE <<>>,
        origin |-> <<110, 117, 108, 108>>,
        rest |-> IF skip = 2 THEN tail ELSE after]

UrlOfAuthority(scheme, after, skip, auth) ==
  Only({UrlRecord(scheme, after, skip, LowerCase(SubSeq(auth, 1, hostEnd)),
                  SubSeq(auth, hostEnd + 1, Len(auth))) :
          hostEnd \in {HostEnd(auth)}})

UrlOfScheme(scheme, after) ==
  Only({UrlOfAuthority(scheme, after, skip, SubSeq(after, skip + 1, Len(after))) :
          skip \in {AuthoritySkip(scheme, after)}})

\* new URL(text), no base: ok, protocol, host, origin, and
\* rest = pathname + search + hash
URL(text) ==
  Only({IF e = 0 THEN InvalidUrl
        ELSE Only({UrlOfScheme(scheme, after) :
                     scheme \in {LowerCase(SubSeq(t, 1, e - 1))},
                     after \in {SubSeq(t, e + 1, Len(t))}}) :
          t \in {text}, e \in {SchemeEnd(text)}})

\* rest.match(/\/go\/[^\/]+(.+)/)[1], Null when there is no match: the
\* first "/go/" that a segment and one more character follow; the greedy
\* segment leaves (.+) one character at least
InnerMatch(s) ==
  LET starts == {i \in 1..Len(s) :
                   /\ i + 5 <= Len(s)
                   /\ SubSeq(s, i, i + 3) = <<47, 103, 111, 47>>
                   /\ s[i + 4] # 47}
      i      == CHOOSE m \in starts : \A n \in starts : m <= n
      segEnd == CHOOSE k \in (i + 4)..(Len(s) - 1) :
                  /\ \A j \in (i + 4)..k : s[j] # 47
                  /\ (k = Len(s) - 1 \/ s[k + 1] = 47)
  IN  IF starts = {} THEN Null ELSE SubSeq(s, segEnd + 1, Len(s))

(***************************************************************************)
(* The request router and handleProxy.  One request is followed from its   *)
(* arrival to the last event of its upstream request; the events of the    *)
(* upstream side are those Node's http client delivers.                    *)
(***************************************************************************)
\* requests one behaviour takes
MaxAttempts == 1
\* 'data' events of one upstream response
MaxChunks == 1

\* part_002 has the hand-written codec, part_003 the 'base64url' one
Codec(srv) == IF srv = "mw2" THEN "manual" ELSE "url"

\* res.status(code).json({error})
Json(code, error) ==
  [NoRes EXCEPT !.headersSent = TRUE, !.finished = TRUE, !.statusCode = code,
                !.body = "json", !.error = error]

\* res.writeHead(code, text/plain or nothing); res.end(text)
Text(code, text) ==
  [NoRes EXCEPT !.headersSent = TRUE, !.finished = TRUE, !.statusCode = code,
                !.body = "text", !.error = text]

\* res.writeHead(status, headers); res.end(body): the rewritten page
Html(status) ==
  [NoRes EXCEPT !.headersSent = TRUE, !.finished = TRUE, !.statusCode = status,
                !.body = "html"]

\* Math.round of the milliseconds since the attempt began
Elapsed == (now - attempt.start) * 1000

\* recordHistory({url: target, target_host: url.host, status, ...})
Recording(status) ==
  /\ recordHistory(attempt.target, attempt.host, status, Elapsed)
  /\ UNCHANGED <<server, mode, jsonFile, storePhase, now, restarts, out, logged>>

\* the router answers on its own: no upstream request, nothing recorded
Answer(request, response) ==
  /\ pc' = "active"
  /\ attempt' = [NoAttempt EXCEPT !.request = request, !.start = now]
  /\ res' = response
  /\ UNCHANGED storeVars

\* handleProxy past its validation: the upstream request is created and
\* sent (proxy(req, res) of the middleware, or protocol.request(...).end())
StartUpstream(request, target, isRaw) ==
  /\ pc' = "active"
  /\ attempt' = [NoAttempt EXCEPT !.request = request, !.target = target,
                                  !.host = URL(target).host, !.raw = isRaw,
                                  !.up = "connecting", !.issued = TRUE,
                                  !.start = now]
  /\ res' = NoRes
  /\ UNCHANGED storeVars

\* handleProxy without its try { new URL(target) } catch
handleProxyUnvalidated(request, target, isRaw) ==
  StartUpstream(request, target, isRaw)

\* handleProxy(req, res, target, {raw})
handleProxy(request, target, isRaw) ==
  IF ~URL(target).ok
  THEN Answer(request, Json(400, "Invalid target URL"))
  ELSE StartUpstream(request, target, isRaw)

\* '/go/' + id + u.pathname + u.search + u.hash, id = encodeOrigin(u.origin)
LegacyLocation(u) ==
  <<47, 103, 111, 47>> \o encodeOrigin(Codec(server), u.origin) \o u.rest

\* app.use('/proxy'): ?target=t&raw=rawFlag
ProxyRoute(t, rawFlag) ==
  /\ pc = "idle" /\ Serving /\ attempts < MaxAttempts
  /\ attempts' = attempts + 1
  /\ LET request == [NoRequest EXCEPT !.route = "proxy", !.target = t, !.rawFlag = rawFlag]
         flag    == LowerCase(IF rawFlag = Null THEN <<>> ELSE rawFlag)
         isRaw   == flag = <<49>> \/ flag = <<116, 114, 117, 101>>
         u       == URL(t)
     IN  IF t = Null \/ t = <<>>
         THEN Answer(request, Json(400, "Missing target"))
         ELSE IF ~u.ok
         THEN Answer(request, Json(400, "Bad target"))
         ELSE IF ~isRaw
         THEN Answer(request,
                [NoRes EXCEPT !.headersSent = TRUE, !.finished = TRUE,
                              !.statusCode = 302, !.body = "redirect",
                              !.location = LegacyLocation(u)])
         ELSE handleProxy(request, t, TRUE)
  /\ UNCHANGED nonProxyVars

\* the target app.use('/go/:oid') resolves: origin + rest, rest being what
\* follows '/go/' + oid in the URL, '/' when nothing does; the native
\* variant unwraps a /go/ path nested in rest
GoTarget(origin, rest) ==
  LET rest1 == IF rest = <<>> THEN <<47>> ELSE rest
      rest2 == IF StartsWith(rest1, <<47>>) THEN rest1 ELSE <<47>> \o rest1
      inner == InnerMatch(rest2)
      rest3 == IF /\ server = "native"
                  /\ Includes(rest2, <<47, 103, 111, 47>>)
                  /\ Includes(rest2, <<97, 72, 82, 48, 99, 72, 77, 54, 76, 121, 56>>)
                  /\ inner # Null
               THEN inner ELSE rest2
  IN  origin \o rest3

\* app.use('/go/:oid'): /go/<oid><rest>; the route needs a segment for
\* :oid, without one no route matches and express answers 404
GoRoute(oid, rest) ==
  /\ pc = "idle" /\ Serving /\ attempts < MaxAttempts
  /\ attempts' = attempts + 1
  /\ LET request == [NoRequest EXCEPT !.route = "go", !.oid = oid, !.rest = rest]
         origin  == decodeOrigin(Codec(server), oid)
     IN  IF oid = <<>>
         THEN Answer(request, [NoRes EXCEPT !.headersSent = TRUE, !.finished = TRUE,
                                            !.statusCode = 404, !.body = "html"])
         ELSE IF origin = Null \/ origin = <<>>
         THEN Answer(request, Json(400, "Bad origin id"))
         ELSE handleProxy(request, GoTarget(origin, rest), FALSE)
  /\ UNCHANGED nonProxyVars

\* app.use('/youtubei/*'), app.use('/generate_204'), app.use('/s/*'):
\* 'https://www.youtube.com' + req.originalUrl, raw, when the referer is a
\* proxied YouTube page
RefererRoute(path, refererOk) ==
  /\ pc = "idle" /\ Serving /\ attempts < MaxAttempts
  /\ server = "native"
  /\ attempts' = attempts + 1
  /\ LET request == [NoRequest EXCEPT !.route = "referer", !.rest = path,
                                      !.referer = refererOk]
     IN  IF refererOk
         THEN handleProxy(request,
                <<104, 116, 116, 112, 115, 58, 47, 47, 119, 119, 119, 46, 121, 111,
                  117, 116, 117, 98, 101, 46, 99, 111, 109>> \o path, TRUE)
         ELSE Answer(request, Json(404, "Not found"))
  /\ UNCHANGED nonProxyVars

\* app.use('/fonts.googleapis.com/*'): 'https://fonts.googleapis.com' + the
\* URL without its '/fonts.googleapis.com', raw
FontsRoute(path) ==
  /\ pc = "idle" /\ Serving /\ attempts < MaxAttempts
  /\ server = "native"
  /\ attempts' = attempts + 1
  /\ handleProxy([NoRequest EXCEPT !.route = "fonts", !.rest = path],
       <<104, 116, 116, 112, 115, 58, 47, 47, 102, 111, 110, 116, 115, 46, 103,
         111, 111, 103, 108, 101, 97, 112, 105, 115, 46, 99, 111, 109>> \o path, TRUE)
  /\ UNCHANGED nonProxyVars

\* onError of the middleware variants: the entry, then the 502; writeHead
\* throws when the headers are out, and nothing in the handler catches it:
\* the process of part_003 logs it in its 'uncaughtException' listener and
\* goes on, the process of part_002 has no such listener and exits
mwOnError ==
  /\ Recording(502)
  /\ IF res.headersSent
     THEN pc' = (IF server = "mw2" THEN "crashed" ELSE pc) /\ res' = res
     ELSE pc' = pc /\ res' = Json(502, "Proxy error")

\* proxyReq.on('error') of the native variant
nativeOnError ==
  /\ Recording(502)
  /\ pc' = pc
  /\ res' = IF res.headersSent THEN res ELSE Json(502, "Proxy connection error")

\* raw mode passes no onError: the middleware's own handler answers, with
\* a status it picks from the error's code, and records nothing
rawOnError ==
  /\ UNCHANGED storeVars
  /\ pc' = pc
  /\ \E code \in {500, 502, 504} :
       res' = IF res.headersSent THEN [res EXCEPT !.finished = TRUE]
              ELSE Text(code, "Error occurred while trying to proxy")

\* the upstream request emits 'error'; nextUp is what remains of it
onRequestError(nextUp) ==
  IF attempt.raw
  THEN rawOnError /\ attempt' = [attempt EXCEPT !.up = nextUp]
  ELSE /\ IF server = "native" THEN nativeOnError ELSE mwOnError
       /\ attempt' = [attempt EXCEPT !.up = nextUp, !.recorded = Append(@, 502)]

\* no response came: the connection failed, or the request was destroyed
\* and reports the socket hang up
RequestError ==
  /\ pc = "active" /\ attempt.up \in {"connecting", "destroyed"}
  /\ onRequestError("closed")
  /\ UNCHANGED <<nonProxyVars, attempts>>

\* the socket fails while the body is read: the request emits 'error', and
\* the response stream is aborted
SocketError ==
  /\ pc = "active" /\ attempt.up = "streaming"
  /\ onRequestError("aborting")
  /\ UNCHANGED <<nonProxyVars, attempts>>

\* the upstream socket stays idle for the timeout: pReq.setTimeout(...,
\* () => pReq.destroy()), proxyTimeout, or proxyReq.on('timeout'); the raw
\* branch of the native variant sets no upstream timeout
RequestTimeout ==
  /\ pc = "active" /\ attempt.up \in {"connecting", "streaming"}
  /\ ~(attempt.raw /\ server = "native")
  /\ attempt' = [attempt EXCEPT
                   !.up = IF @ = "connecting" THEN "destroyed" ELSE "aborting",
                   !.timedOut = @ \/ attempt.up = "connecting"]
  /\ res' = IF server = "native" /\ ~res.headersSent
            THEN Text(504, "Request Timeout") ELSE res
  /\ UNCHANGED <<storeVars, nonProxyVars, pc, attempts>>

\* the response headers arrive: onProxyRes, or the callback of
\* protocol.request; raw mode writes the head and pipes
UpstreamResponse(status, html) ==
  /\ pc = "active" /\ attempt.up = "connecting"
  /\ IF attempt.raw
     THEN /\ attempt' = [attempt EXCEPT !.up = "streaming", !.status = status,
                                        !.isHtml = html]
          /\ res' = [res EXCEPT !.headersSent = TRUE, !.statusCode = status,
                                !.body = "stream"]
          /\ UNCHANGED storeVars
     ELSE IF server = "native"
     THEN /\ Recording(status)
          /\ attempt' = [attempt EXCEPT !.up = "streaming", !.status = status,
                                        !.isHtml = html,
                                        !.recorded = Append(@, status)]
          /\ res' = IF html THEN res
                    ELSE [res EXCEPT !.headersSent = TRUE, !.statusCode = status,
                                     !.body = "stream"]
     ELSE /\ attempt' = [attempt EXCEPT !.up = "streaming", !.status = status,
                                        !.isHtml = html, !.ended = FALSE,
                                        !.safety = TRUE]
          /\ res' = res
          /\ UNCHANGED storeVars
  /\ UNCHANGED <<nonProxyVars, pc, attempts>>

\* a chunk of the body: buffered for a page, written through otherwise (a
\* write to a response that has ended is dropped)
UpstreamData ==
  /\ pc = "active" /\ attempt.up = "streaming"
  /\ attempt.chunks < MaxChunks
  /\ attempt' = [attempt EXCEPT !.chunks = @ + 1]
  /\ res' = IF ~attempt.raw /\ server # "native" /\ ~attempt.isHtml /\ ~res.finished
            THEN [res EXCEPT !.headersSent = TRUE, !.body = "stream"]
            ELSE res
  /\ UNCHANGED <<storeVars, nonProxyVars, pc, attempts>>

\* the body ends
UpstreamEnd ==
  /\ pc = "active" /\ attempt.up = "streaming"
  /\ IF attempt.raw
     THEN /\ attempt' = [attempt EXCEPT !.up = "closed"]
          /\ res' = [res EXCEPT !.finished = TRUE]
          /\ UNCHANGED storeVars
     ELSE IF server = "native"
     THEN /\ attempt' = [attempt EXCEPT !.up = "closed"]
          /\ res' = IF attempt.isHtml THEN Html(attempt.status)
                    ELSE [res EXCEPT !.finished = TRUE]
          /\ UNCHANGED storeVars
     ELSE IF attempt.ended
     THEN /\ attempt' = [attempt EXCEPT !.up = "closed"]
          /\ res' = res
          /\ UNCHANGED storeVars
     ELSE /\ Recording(attempt.status)
          /\ attempt' = [attempt EXCEPT !.up = "closed", !.ended = TRUE,
                                        !.safety = FALSE,
                                        !.recorded = Append(@, attempt.status)]
          /\ res' = IF attempt.isHtml THEN Html(attempt.status)
                    ELSE [res EXCEPT !.headersSent = TRUE, !.finished = TRUE,
                                     !.body = "stream"]
  /\ UNCHANGED <<nonProxyVars, pc, attempts>>

\* the response stream emits 'error': the socket closed before the body
\* was complete, or after a socket error or a destroy
ResponseError ==
  /\ pc = "active" /\ attempt.up \in {"streaming", "aborting"}
  /\ IF attempt.raw
     THEN attempt' = [attempt EXCEPT !.up = "closed"] /\ res' = res
     ELSE IF server = "native"
     THEN /\ attempt' = [attempt EXCEPT !.up = "closed"]
          /\ res' = IF attempt.isHtml /\ ~res.headersSent
                    THEN Text(502, "Proxy Response Error") ELSE res
     ELSE IF attempt.ended
     THEN attempt' = [attempt EXCEPT !.up = "closed"] /\ res' = res
     ELSE /\ attempt' = [attempt EXCEPT !.up = "closed", !.ended = TRUE,
                                        !.safety = FALSE]
          /\ res' = IF res.headersSent THEN [res EXCEPT !.finished = TRUE]
                    ELSE Json(502, "Upstream error")
  /\ UNCHANGED <<storeVars, nonProxyVars, pc, attempts>>

\* the safety timer of onProxyRes expires
SafetyTimer ==
  /\ pc = "active" /\ attempt.safety
  /\ attempt' = [attempt EXCEPT !.safety = FALSE, !.ended = TRUE]
  /\ res' = IF attempt.ended THEN res
            ELSE IF res.headersSent THEN [res EXCEPT !.finished = TRUE]
            ELSE Text(504, "Response timeout")
  /\ UNCHANGED <<storeVars, nonProxyVars, pc, attempts>>

\* the attempt is finished: nothing of it is pending any more
Finished ==
  pc = "active" /\ attempt.up \in {"none", "closed"} /\ ~attempt.safety

\* the request is discarded
Release ==
  /\ Finished
  /\ pc' = "idle" /\ attempt' = NoAttempt /\ res' = NoRes
  /\ UNCHANGED <<storeVars, nonProxyVars, attempts>>

\* the requests drawn.  target: none, '', 'x', 'http://' and 'http://a';
\* raw: none, '1', 'True' and '0'
ProxyTargets ==
  {Null, <<>>, <<120>>, <<104, 116, 116, 112, 58, 47, 47>>,
   <<104, 116, 116, 112, 58, 47, 47, 97>>}

RawFlags == {Null, <<49>>, <<84, 114, 117, 101>>, <<48>>}

\* oid: none, '!!!!' (decodes to ''), '_w' (decodes to no URL), the
\* identifier of http://a (the same under both codecs), and that
\* identifier with a '!' appended
OriginIds ==
  {<<>>, <<33, 33, 33, 33>>, <<95, 119>>,
   encodeOriginUrl(<<104, 116, 116, 112, 58, 47, 47, 97>>),
   encodeOriginUrl(<<104, 116, 116, 112, 58, 47, 47, 97>>) \o <<33>>}

\* rest: '', '/p', '?q' and '/go/aHR0cHM6Ly8/p'
Rests ==
  {<<>>, <<47, 112>>, <<63, 113>>,
   <<47, 103, 111, 47, 97, 72, 82, 48, 99, 72, 77, 54, 76, 121, 56, 47, 112>>}

\* the status and content type (a page or not) of the upstream responses
UpstreamStatuses == {200, 404}

ProxyInit == server \in Servers /\ StoreStart /\ CodecIdle /\ ProxyIdle /\ HeadersIdle

ProxyNext ==
  \/ InitSqlite
  \/ InitFallback
  \/ Tick
  \/ \E t \in ProxyTargets, f \in RawFlags : ProxyRoute(t, f)
  \/ \E oid \in OriginIds, rest \in Rests : GoRoute(oid, rest)
  \/ \E ok \in BOOLEAN : RefererRoute(<<47, 115, 47, 120>>, ok)
  \/ FontsRoute(<<47, 99, 115, 115>>)
  \/ \E st \in UpstreamStatuses, html \in BOOLEAN : UpstreamResponse(st, html)
  \/ UpstreamData
  \/ UpstreamEnd
  \/ RequestError
  \/ SocketError
  \/ RequestTimeout
  \/ ResponseError
  \/ SafetyTimer
  \/ Release

SpecProxy == ProxyInit /\ [][ProxyNext]_vars

(***************************************************************************)
(* The store of a host where better-sqlite3 never loads: every process     *)
(* ends initHistoryStore in its catch branch.                              *)
(***************************************************************************)
FallbackNext ==
  \/ InitFallback
  \/ \E k \in RecordKinds : Record(k[1], k[2])
  \/ \E ok \in BOOLEAN : PersistTick(ok)
  \/ \E ok \in BOOLEAN : Restart(ok)

SpecFallback == StoreInit /\ [][FallbackNext]_vars


(***************************************************************************)
(* The response headers handleProxy rewrites before it answers: every      *)
(* Set-Cookie value and the Location of a redirect.                        *)
(***************************************************************************)
\* \s of a regular expression, for the characters a header value holds
IsSpace(c) == c \in {32, 9}

\* the first index at or after a whose character is no blank, Len(s) + 1
\* when there is none: where \s* stops
NonSpaceFrom(s, a) ==
  CHOOSE j \in a..(Len(s) + 1) :
    /\ \A k \in a..(j - 1) : IsSpace(s[k])
    /\ (j = Len(s) + 1 \/ ~IsSpace(s[j]))

\* the index after the [^;]+ that starts at e, 0 when it matches nothing
ValueEnd(s, e) ==
  IF e > Len(s) \/ s[e] = 59 THEN 0
  ELSE CHOOSE n \in (e + 1)..(Len(s) + 1) :
         /\ \A k \in e..(n - 1) : s[k] # 59
         /\ (n = Len(s) + 1 \/ s[n] = 59)

\* where a match of /;\s*<kw>/i starting at s[i] ends (the index after it),
\* or of /;\s*<kw>[^;]+/i when valued; 0 when there is no match at i.  kw is
\* in lower case.
AttrMatchEnd(s, i, kw, valued) ==
  IF s[i] # 59 THEN 0
  ELSE Only({IF \/ j + Len(kw) - 1 > Len(s)
                \/ LowerCase(SubSeq(s, j, j + Len(kw) - 1)) # kw
             THEN 0
             ELSE IF ~valued THEN j + Len(kw)
             ELSE ValueEnd(s, j + Len(kw)) :
               j \in {NonSpaceFrom(s, i + 1)}})

\* the index of the leftmost match at or after from, 0 when there is none
FirstAttrMatch(s, from, kw, valued) ==
  IF \A i \in from..Len(s) : AttrMatchEnd(s, i, kw, valued) = 0 THEN 0
  ELSE CHOOSE i \in from..Len(s) :
         /\ AttrMatchEnd(s, i, kw, valued) > 0
         /\ \A j \in from..(i - 1) : AttrMatchEnd(s, j, kw, valued) = 0

\* s.replace(/;\s*<kw>.../i, repl): the leftmost match only
ReplaceFirstAttr(text, kw, valued, repl) ==
  Only({Only({IF i = 0 THEN s
              ELSE SubSeq(s, 1, i - 1) \o repl
                     \o SubSeq(s, AttrMatchEnd(s, i, kw, valued), Len(s)) :
                i \in {FirstAttrMatch(s, 1, kw, valued)}}) :
          s \in {text}})

\* s.replace(/;\s*<kw>/gi, repl): every match, left to right
RECURSIVE ReplaceEveryAttr(_, _, _)
ReplaceEveryAttr(text, kw, repl) ==
  Only({Only({IF i = 0 THEN s
              ELSE SubSeq(s, 1, i - 1) \o repl
                     \o ReplaceEveryAttr(
                          SubSeq(s, AttrMatchEnd(s, i, kw, FALSE), Len(s)), kw, repl) :
                i \in {FirstAttrMatch(s, 1, kw, FALSE)}}) :
          s \in {text}})

\* one element of the set-cookie array:
\* c.replace(/;\s*Domain=[^;]+/i, '').replace(/;\s*Secure/gi, '')
\*  .replace(/;\s*SameSite=[^;]+/i, '; SameSite=Lax')
rewriteCookie(c) ==
  ReplaceFirstAttr(
    ReplaceEveryAttr(
      ReplaceFirstAttr(c, <<100, 111, 109, 97, 105, 110, 61>>, TRUE, <<>>),
      <<115, 101, 99, 117, 114, 101>>, <<>>),
    <<115, 97, 109, 101, 115, 105, 116, 101, 61>>, TRUE, <<59, 32, 83, 97, 109, 101, 83, 105, 116, 101, 61, 76, 97, 120>>)

\* pathname, search and hash of the rest of a URL
PathEnd(rest) ==
  LET stops == {i \in 1..Len(rest) : rest[i] \in {63, 35}}
  IN  IF stops = {} THEN Len(rest) ELSE (CHOOSE i \in stops : \A j \in stops : i <= j) - 1

HashStart(rest) ==
  LET hs == {i \in 1..Len(rest) : rest[i] = 35}
  IN  IF hs = {} THEN Len(rest) + 1 ELSE CHOOSE i \in hs : \A j \in hs : i <= j

Pathname(rest) == SubSeq(rest, 1, PathEnd(rest))

\* u.pathname + u.search
PathAndSearch(rest) == SubSeq(rest, 1, HashStart(rest) - 1)

\* the path up to and with its last '/'
Directory(path) ==
  LET slashes == {i \in 1..Len(path) : path[i] = 47}
  IN  IF slashes = {} THEN <<47>>
      ELSE SubSeq(path, 1, CHOOSE i \in slashes : \A j \in slashes : j <= i)

\* new URL(text, base): text with a scheme stands alone; otherwise it is
\* resolved against base as a protocol-relative, root-relative, query-only,
\* fragment-only or path-relative reference
UrlWithBase(text, base) ==
  LET b == URL(base)
      scheme == SubSeq(b.protocol, 1, Len(b.protocol) - 1)
  IN  IF SchemeEnd(text) > 0 THEN URL(text)
      ELSE IF ~b.ok THEN InvalidUrl
      ELSE IF StartsWith(text, <<47, 47>>) THEN URL(b.protocol \o text)
      ELSE IF StartsWith(text, <<47>>) THEN URL(b.origin \o text)
      ELSE IF StartsWith(text, <<63>>) THEN URL(b.origin \o Pathname(b.rest) \o text)
      ELSE IF StartsWith(text, <<35>>) THEN URL(b.origin \o PathAndSearch(b.rest) \o text)
      ELSE IF text = <<>> THEN URL(b.origin \o PathAndSearch(b.rest))
      ELSE URL(b.origin \o Directory(Pathname(b.rest)) \o text)

\* '/go/' + encodeOrigin(u.origin) + u.pathname + u.search
GoPath(u) ==
  <<47, 103, 111, 47>> \o encodeOrigin(Codec(server), u.origin) \o PathAndSearch(u.rest)

\* the Location the middleware variants deliver: a value that starts with
\* '/' is appended to the origin of the target, any other is taken as it
\* is; when new URL throws the header stays
mwRewriteLocation(loc, target) ==
  LET abs == IF StartsWith(loc, <<47>>) THEN URL(target).origin \o loc ELSE loc
      u   == URL(abs)
  IN  IF u.ok THEN GoPath(u) ELSE loc

\* the Location the native variant delivers: the value resolved against
\* the origin of the target
nativeRewriteLocation(loc, target) ==
  LET u == UrlWithBase(loc, URL(target).origin)
  IN  IF u.ok THEN GoPath(u) ELSE loc

rewriteLocation(loc, target) ==
  IF server = "native" THEN nativeRewriteLocation(loc, target)
  ELSE mwRewriteLocation(loc, target)

\* the target the /go route resolves for the request of a path
\* /go/<oid><rest>: Null when the route answers 400 or does not match
GoResolve(path) ==
  LET after == SubSeq(path, 5, Len(path))
      stops == {i \in 1..Len(after) : after[i] \in {47, 63}}
      oidEnd == IF stops = {} THEN Len(after)
                ELSE (CHOOSE i \in stops : \A j \in stops : i <= j) - 1
      oid    == SubSeq(after, 1, oidEnd)
      origin == decodeOrigin(Codec(server), oid)
  IN  IF ~StartsWith(path, <<47, 103, 111, 47>>) \/ oid = <<>> THEN Null
      ELSE IF origin = Null \/ origin = <<>> THEN Null
      ELSE GoTarget(origin, SubSeq(after, oidEnd + 1, Len(after)))


\* the attributes a drawn cookie has behind sid=1
MaxCookieAttrs == 2

\* '; Domain=example.com', '; Secure', '; SameSite=None', '; Path=/' and
\* ';secure'
CookieAttrs ==
  {<<59, 32, 68, 111, 109, 97, 105, 110, 61, 101, 120, 97, 109, 112, 108, 101, 46, 99, 111, 109>>,
   <<59, 32, 83, 101, 99, 117, 114, 101>>,
   <<59, 32, 83, 97, 109, 101, 83, 105, 116, 101, 61, 78, 111, 110, 101>>,
   <<59, 32, 80, 97, 116, 104, 61, 47>>,
   <<59, 115, 101, 99, 117, 114, 101>>}

RECURSIVE CookiesWith(_)
CookiesWith(n) ==
  IF n = 0 THEN {<<115, 105, 100, 61, 49>>}
  ELSE {c \o a : c \in CookiesWith(n - 1), a \in CookieAttrs}

Cookies == UNION {CookiesWith(n) : n \in 0..MaxCookieAttrs}

\* the targets: 'http://a/d/p?q' and 'https://a'
HeaderTargets ==
  {<<104, 116, 116, 112, 58, 47, 47, 97, 47, 100, 47, 112, 63, 113>>,
   <<104, 116, 116, 112, 115, 58, 47, 47, 97>>}

\* the Location of the upstream: none, 'http://b/x?y#f', 'http://b',
\* '/x?y', '//b/x', 'x', '?y'
Locations ==
  {Null,
   <<104, 116, 116, 112, 58, 47, 47, 98, 47, 120, 63, 121, 35, 102>>,
   <<104, 116, 116, 112, 58, 47, 47, 98>>,
   <<47, 120, 63, 121>>,
   <<47, 47, 98, 47, 120>>,
   <<120>>,
   <<63, 121>>}

\* the response callback, up to the headers it will write
RewriteHeaders ==
  /\ hPhase = "received"
  /\ hPhase' = "rewritten"
  /\ downCookie' = IF upCookie = Null THEN Null ELSE rewriteCookie(upCookie)
  /\ downLocation' = IF upLocation = Null \/ upLocation = <<>> THEN upLocation
                     ELSE rewriteLocation(upLocation, hTarget)
  /\ UNCHANGED <<codecVars, storeVars, proxyVars, tlsVars, pageVars, docVars, reqVars, browserVars, hTarget, upCookie, upLocation, followed>>

\* the client requests the /go path it was sent as Location (the fragment
\* stays with the client)
FollowRedirect ==
  /\ hPhase = "rewritten"
  /\ downLocation # Null /\ StartsWith(downLocation, <<47, 103, 111, 47>>)
  /\ hPhase' = "followed"
  /\ followed' = GoResolve(PathAndSearch(downLocation))
  /\ UNCHANGED <<codecVars, storeVars, proxyVars, tlsVars, pageVars, docVars, reqVars, browserVars, hTarget, upCookie, upLocation, downCookie,
                 downLocation>>

HeadersInit ==
  /\ server \in Servers /\ StoreStart /\ CodecIdle /\ ProxyIdle
  /\ hTarget \in HeaderTargets
  /\ \/ upCookie \in Cookies /\ upLocation = Null
     \/ upCookie = Null /\ upLocation \in Locations
  /\ downCookie = Null /\ downLocation = Null /\ followed = Null
  /\ hPhase = "received"
  /\ tlsReq = NoTlsReq /\ tlsConn = NoConn
  /\ page = NoPage /\ served = NoServed
  /\ DocIdle

HeadersNext == RewriteHeaders \/ FollowRedirect

SpecHeaders == HeadersInit /\ [][HeadersNext]_vars


\* the targets of /proxy?target=: 'http://a', 'http://a/', 'http://a/p', 'http://a/p?q',
\* 'http://a/p?q#f', 'http://a#f', 'http://a?q', 'https://a',
\* 'https://a/p', 'https://a/p?q', 'https://a/d/p', 'HTTP://A/p',
\* 'http://a.b/p', 'http://a/go/p', 'http://a/go/aHR0cHM6Ly8/p',
\* 'file:///p', 'mailto:x', 'x', 'http://'
LegacyTargets ==
  {<<104, 116, 116, 112, 58, 47, 47, 97>>,
   <<104, 116, 116, 112, 58, 47, 47, 97, 47>>,
   <<104, 116, 116, 112, 58, 47, 47, 97, 47, 112>>,
   <<104, 116, 116, 112, 58, 47, 47, 97, 47, 112, 63, 113>>,
   <<104, 116, 116, 112, 58, 47, 47, 97, 47, 112, 63, 113, 35, 102>>,
   <<104, 116, 116, 112, 58, 47, 47, 97, 35, 102>>,
   <<104, 116, 116, 112, 58, 47, 47, 97, 63, 113>>,
   <<104, 116, 116, 112, 115, 58, 47, 47, 97>>,
   <<104, 116, 116, 112, 115, 58, 47, 47, 97, 47, 112>>,
   <<104, 116, 116, 112, 115, 58, 47, 47, 97, 47, 112, 63, 113>>,
   <<104, 116, 116, 112, 115, 58, 47, 47, 97, 47, 100, 47, 112>>,
   <<72, 84, 84, 80, 58, 47, 47, 65, 47, 112>>,
   <<104, 116, 116, 112, 58, 47, 47, 97, 46, 98, 47, 112>>,
   <<104, 116, 116, 112, 58, 47, 47, 97, 47, 103, 111, 47, 112>>,
   <<104, 116, 116, 112, 58, 47, 47, 97, 47, 103, 111, 47, 97, 72, 82, 48, 99, 72, 77, 54, 76, 121, 56, 47, 112>>,
   <<102, 105, 108, 101, 58, 47, 47, 47, 112>>,
   <<109, 97, 105, 108, 116, 111, 58, 120>>,
   <<120>>,
   <<104, 116, 116, 112, 58, 47, 47>>}

\* app.use('/proxy') without the raw flag: 400 when new URL throws, else
\* the 302 to the path style
LegacyRedirect ==
  /\ hPhase = "requested"
  /\ IF URL(hTarget).ok
     THEN hPhase' = "rewritten" /\ downLocation' = LegacyLocation(URL(hTarget))
     ELSE hPhase' = "rejected" /\ UNCHANGED downLocation
  /\ UNCHANGED <<codecVars, storeVars, proxyVars, tlsVars, pageVars, docVars, reqVars, browserVars, hTarget, upCookie, upLocation, downCookie,
                 followed>>

LegacyInit ==
  /\ server \in Servers /\ StoreStart /\ CodecIdle /\ ProxyIdle
  /\ hTarget \in LegacyTargets
  /\ upCookie = Null /\ upLocation = Null
  /\ downCookie = Null /\ downLocation = Null /\ followed = Null
  /\ hPhase = "requested"
  /\ tlsReq = NoTlsReq /\ tlsConn = NoConn
  /\ page = NoPage /\ served = NoServed
  /\ DocIdle

LegacyNext == LegacyRedirect \/ FollowRedirect

SpecLegacy == LegacyInit /\ [][LegacyNext]_vars


(***************************************************************************)
(* The upstream connection of a request: the agent and the options         *)
(* handleProxy hands to the client it uses, and the certificate check the  *)
(* connection is made with.                                                *)
(***************************************************************************)
\* new https.Agent({ ..., rejectUnauthorized: false })
httpsAgent == [name |-> "httpsAgent", rejectUnauthorized |-> FALSE]

\* new http.Agent({ ... }): plain connections, no certificate
httpAgent == [name |-> "httpAgent", rejectUnauthorized |-> FALSE]

\* req.query.insecure === '1'
InsecureOption(q) == q = <<49>>

\* the routes and what they pass to handleProxy: /proxy with raw takes
\* insecure from the query, /go/:oid too; the referer routes and the fonts
\* route of the native variant pass { raw: true } alone
TlsRoutes == {"proxy", "go", "referer", "fonts"}

RouteRaw(route) == route # "go"

RouteInsecure(route, q) == route \in {"proxy", "go"} /\ InsecureOption(q)

\* the options of the upstream client: the middleware (every request of
\* the middleware variants, the raw ones of the native variant) is given
\* secure: !insecure and the agent; the native rewriting path calls
\* https.request with the agent and no option of its own
UpstreamOptions(target, raw, insecure) ==
  LET isHttps == URL(target).protocol = <<104, 116, 116, 112, 115, 58>>
      agent   == IF isHttps THEN httpsAgent ELSE httpAgent
  IN  IF server = "native" /\ ~raw
      THEN [https |-> isHttps, client |-> "native", agent |-> agent, secure |-> "unset"]
      ELSE [https |-> isHttps, client |-> "middleware", agent |-> agent,
            secure |-> IF insecure THEN "false" ELSE "true"]

\* whether the TLS handshake rejects a certificate that does not verify:
\* the agent's options are what its sockets are created with, the
\* request's rejectUnauthorized (the middleware's secure) is spread under
\* them
RejectUnauthorized(options) ==
  options.https /\ options.agent.rejectUnauthorized

\* handleProxy up to the creation of the upstream request
Connect ==
  /\ tlsReq # NoTlsReq /\ tlsConn = NoConn
  /\ LET insecure == RouteInsecure(tlsReq.route, tlsReq.insecure)
         options  == UpstreamOptions(tlsReq.target, RouteRaw(tlsReq.route), insecure)
     IN  tlsConn' = [insecure |-> insecure, options |-> options,
                     rejectUnauthorized |-> RejectUnauthorized(options)]
  /\ UNCHANGED <<codecVars, storeVars, proxyVars, headerVars, pageVars, docVars, reqVars, browserVars, tlsReq>>

\* the targets: 'https://a', 'https://a/p', 'https://b.test/p?q', 'http://a', 'http://a/p'
TlsTargets ==
  {<<104, 116, 116, 112, 115, 58, 47, 47, 97>>,
   <<104, 116, 116, 112, 115, 58, 47, 47, 97, 47, 112>>,
   <<104, 116, 116, 112, 115, 58, 47, 47, 98, 46, 116, 101, 115, 116, 47, 112, 63, 113>>,
   <<104, 116, 116, 112, 58, 47, 47, 97>>,
   <<104, 116, 116, 112, 58, 47, 47, 97, 47, 112>>}

\* ?insecure=: none, '1', '0', 'true', ''
InsecureFlags == {Null, <<49>>, <<48>>, <<116, 114, 117, 101>>, <<>>}

TlsInit ==
  /\ server \in Servers /\ StoreStart /\ CodecIdle /\ ProxyIdle
  /\ hTarget = Null /\ upCookie = Null /\ upLocation = Null
  /\ downCookie = Null /\ downLocation = Null /\ followed = Null
  /\ hPhase = "idle"
  /\ \E route \in TlsRoutes, target \in TlsTargets, q \in InsecureFlags :
       /\ route \in {"referer", "fonts"} => (server = "native" /\ q = Null)
       /\ tlsReq = [route |-> route, target |-> target, insecure |-> q]
  /\ tlsConn = NoConn
  /\ page = NoPage /\ served = NoServed
  /\ DocIdle

SpecTls == TlsInit /\ [][Connect]_vars


(***************************************************************************)
(* The 'end' handler of a page: the chunks are joined, decompressed as the *)
(* content-encoding header says, rewritten and sent; the catch branch      *)
(* sends the chunks as they were received.                                 *)
(***************************************************************************)
\* gzip, deflate and br: the encodings the handler decompresses
Decompressed == {<<103, 122, 105, 112>>, <<100, 101, 102, 108, 97, 116, 101>>, <<98, 114>>}

\* the encoding the handler acts on: the header as it is in the native
\* variant, (pRes.headers['content-encoding'] || '').toLowerCase() in the
\* middleware variants
HandledEncoding(srv, enc) ==
  LET e == IF enc = Null THEN <<>> ELSE IF srv = "native" THEN enc ELSE LowerCase(enc)
  IN  IF e \in Decompressed THEN e ELSE <<>>

\* what zlib's gunzipSync, inflateSync and brotliDecompressSync take
CodingOf(e) ==
  IF e = <<103, 122, 105, 112>> THEN "gzip" ELSE IF e = <<100, 101, 102, 108, 97, 116, 101>> THEN "deflate" ELSE "br"

\* whether the decompression the handler attempts throws: the bytes are not
\* of the coding the header names
DecompressThrows(srv, pg) ==
  /\ HandledEncoding(srv, pg.enc) # <<>>
  /\ pg.coding # CodingOf(HandledEncoding(srv, pg.enc))

\* rewriteHtml of the native variant catches what it throws and returns the
\* body it was given; the middleware variants' throws
RewriteCaught(srv) == srv = "native"

\* the catch branch with the deletes of the try branch copied into it
PageFallbackDropsEncoding(srv, pg) ==
  [answered |-> TRUE, statusCode |-> pg.status, contentEncoding |-> Null,
   contentLength |-> FALSE, bytes |-> "received", rewritten |-> FALSE]

\* the catch branch: res.writeHead(status, headers) with the headers as
\* they are (the native variant deletes content-length), then
\* res.end(Buffer.concat(chunks))
PageFallback(srv, pg) ==
  [answered |-> TRUE, statusCode |-> pg.status, contentEncoding |-> pg.enc,
   contentLength |-> srv # "native", bytes |-> "received", rewritten |-> FALSE]

\* the try branch to its end: content-length and content-encoding deleted,
\* the string sent; bytes tells what the string was made of: the
\* "decompressed" body, the text as "received" when it was not compressed,
\* or "undecoded", compressed bytes no branch decompressed, read as UTF-8
PageSent(srv, pg, rewritten) ==
  [answered |-> TRUE, statusCode |-> pg.status, contentEncoding |-> Null,
   contentLength |-> FALSE,
   bytes |-> IF HandledEncoding(srv, pg.enc) # <<>> THEN "decompressed"
             ELSE IF pg.coding = "identity" THEN "received"
             ELSE "undecoded",
   rewritten |-> rewritten]

\* proxyRes.on('end') of a page
onEnd(srv, pg) ==
  IF DecompressThrows(srv, pg) THEN PageFallback(srv, pg)
  ELSE IF ~pg.rewriteThrows THEN PageSent(srv, pg, TRUE)
  ELSE IF RewriteCaught(srv) THEN PageSent(srv, pg, FALSE)
  ELSE PageFallback(srv, pg)

OnEnd ==
  /\ page # NoPage /\ served = NoServed
  /\ served' = onEnd(server, page)
  /\ UNCHANGED <<codecVars, storeVars, proxyVars, headerVars, tlsVars, docVars, reqVars, browserVars, page>>

\* content-encoding of the upstream: none, gzip, GZIP, deflate, br, zstd
Encodings == {Null, <<103, 122, 105, 112>>, <<71, 90, 73, 80>>, <<100, 101, 102, 108, 97, 116, 101>>, <<98, 114>>, <<122, 115, 116, 100>>}

\* what the bytes of the body are: text that is not compressed, a gzip,
\* deflate or brotli stream, or none of them (a stream cut short, another
\* coding)
Codings == {"identity", "gzip", "deflate", "br", "corrupt"}

PageInit ==
  /\ server \in Servers /\ StoreStart /\ CodecIdle /\ ProxyIdle
  /\ hTarget = Null /\ upCookie = Null /\ upLocation = Null
  /\ downCookie = Null /\ downLocation = Null /\ followed = Null
  /\ hPhase = "idle"
  /\ tlsReq = NoTlsReq /\ tlsConn = NoConn
  /\ \E st \in UpstreamStatuses, enc \in Encodings, coding \in Codings, t \in BOOLEAN :
       page = [status |-> st, enc |-> enc, coding |-> coding, rewriteThrows |-> t]
  /\ served = NoServed
  /\ DocIdle

SpecPage == PageInit /\ [][OnEnd]_vars

(***************************************************************************)
(* rewriteHtml.  A body is the sequence of its characters.  A stretch of   *)
(* the markup the function injects that none of its patterns can match a   *)
(* part of is one element of the sequence, a negative number.              *)
(***************************************************************************)
\* s holds the text lit at i
At(s, i, lit) ==
  i >= 1 /\ i + Len(lit) - 1 <= Len(s) /\ SubSeq(s, i, i + Len(lit) - 1) = lit

\* the same under the i flag of a pattern; lit is in lower case
AtNoCase(s, i, lit) ==
  i >= 1 /\ i + Len(lit) - 1 <= Len(s) /\ LowerCase(SubSeq(s, i, i + Len(lit) - 1)) = lit

\* the first index at or after from whose character is in set, 0 when
\* there is none
NextIn(s, from, set) ==
  IF \A k \in from..Len(s) : s[k] \notin set THEN 0
  ELSE CHOOSE k \in from..Len(s) :
         s[k] \in set /\ \A j \in from..(k - 1) : s[j] \notin set

\* \w of a pattern
IsWordChar(c) == IsAlpha(c) \/ IsDigit(c) \/ c = 95

\* \b in front of the word character at i
WordStart(s, i) == i = 1 \/ ~IsWordChar(s[i - 1])

\* the length of what (href|src|action) matches at i under the i flag, 0
\* when it does not match
AttrNameLen(s, i) ==
  IF AtNoCase(s, i, <<104, 114, 101, 102>>) THEN 4
  ELSE IF AtNoCase(s, i, <<115, 114, 99>>) THEN 3
  ELSE IF AtNoCase(s, i, <<97, 99, 116, 105, 111, 110>>) THEN 6
  ELSE 0

\* ["']
Quotes == {34, 39}

\* a match of a pattern: the index behind it, its text, and two of its
\* parts (what the replacement keeps in front, and the value captured);
\* end = 0 means no match
NoMatch == [end |-> 0, all |-> <<>>, pre |-> <<>>, val |-> <<>>]

AMatch(s, i, end, preEnd, valStart, valEnd) ==
  [end |-> end, all |-> SubSeq(s, i, end - 1), pre |-> SubSeq(s, i, preEnd),
   val |-> SubSeq(s, valStart, valEnd)]

\* the toolbar version's attribute pattern at i:
\* /\b(href|src|action)=("|')(.*?)(\2)/gi; pre is attr=q
mw2AttrMatch(s, i) ==
  Only({IF \/ n = 0 \/ ~WordStart(s, i) \/ i + n + 1 > Len(s)
           \/ s[i + n] # 61 \/ s[i + n + 1] \notin Quotes
        THEN NoMatch
        ELSE Only({IF k = 0 \/ s[k] # s[i + n + 1] THEN NoMatch
                   ELSE AMatch(s, i, k + 1, i + n + 1, i + n + 2, k - 1) :
                     k \in {NextIn(s, i + n + 2, {s[i + n + 1], 10, 13})}}) :
          n \in {AttrNameLen(s, i)}})

\* how many characters (?:https?:)? takes at j
SchemeLen(s, j) ==
  IF AtNoCase(s, j, <<104, 116, 116, 112, 115, 58>>) THEN 6
  ELSE IF AtNoCase(s, j, <<104, 116, 116, 112, 58>>) THEN 5
  ELSE 0

\* where (\s(?:href|src|action)=["']?) can end when it starts at i: behind
\* the quote when there is one (tried first), and in front of it; the empty
\* set when it does not match
PrefixEnds(s, i) ==
  IF i > Len(s) \/ ~IsSpace(s[i]) THEN {}
  ELSE Only({IF n = 0 \/ i + n + 1 > Len(s) \/ s[i + n + 1] # 61 THEN {}
             ELSE IF i + n + 2 <= Len(s) /\ s[i + n + 2] \in Quotes
             THEN {i + n + 2, i + n + 1}
             ELSE {i + n + 1} :
               n \in {AttrNameLen(s, i + 1)}})

\* /(\s(?:href|src|action)=["']?)(?:https?:)?\/\//gi at i; pre is the group
mw3AbsoluteMatch(s, i) ==
  Only({IF \A e \in ends : ~At(s, e + 1 + SchemeLen(s, e + 1), <<47, 47>>) THEN NoMatch
        ELSE Only({AMatch(s, i, e + 1 + SchemeLen(s, e + 1) + 2, e, e + 1, e) :
                     e \in {CHOOSE e \in ends :
                              /\ At(s, e + 1 + SchemeLen(s, e + 1), <<47, 47>>)
                              /\ \A f \in ends :
                                   At(s, f + 1 + SchemeLen(s, f + 1), <<47, 47>>) => f <= e}}) :
          ends \in {PrefixEnds(s, i)}})

\* what the lookahead (?!(?:https?:|\/\/|data:|mailto:|tel:|#|javascript:))
\* refuses at j
Refused(s, j) ==
  \/ SchemeLen(s, j) > 0
  \/ AtNoCase(s, j, <<47, 47>>) \/ AtNoCase(s, j, <<100, 97, 116, 97, 58>>) \/ AtNoCase(s, j, <<109, 97, 105, 108, 116, 111, 58>>)
  \/ AtNoCase(s, j, <<116, 101, 108, 58>>) \/ AtNoCase(s, j, <<35>>) \/ AtNoCase(s, j, <<106, 97, 118, 97, 115, 99, 114, 105, 112, 116, 58>>)

\* /(\s(?:href|src|action)=["']?)(?!...)/gi at i: the group ends behind
\* the quote when the lookahead admits what follows it, else in front of
\* the quote when the lookahead admits the quote
mw3RelativeMatch(s, i) ==
  Only({IF \A e \in ends : Refused(s, e + 1) THEN NoMatch
        ELSE Only({AMatch(s, i, e + 1, e, e + 1, e) :
                     e \in {CHOOSE e \in ends :
                              /\ ~Refused(s, e + 1)
                              /\ \A f \in ends : ~Refused(s, f + 1) => f <= e}}) :
          ends \in {PrefixEnds(s, i)}})

\* the index of the quote that /\b(href|src|action)\s*=\s*["']/ ends with
\* when it starts at i, 0 when it does not match
OpeningQuote(s, i) ==
  Only({IF n = 0 \/ ~WordStart(s, i) THEN 0
        ELSE Only({IF a > Len(s) \/ s[a] # 61 THEN 0
                   ELSE Only({IF b > Len(s) \/ s[b] \notin Quotes THEN 0 ELSE b :
                                b \in {NonSpaceFrom(s, a + 1)}}) :
                     a \in {NonSpaceFrom(s, i + n)}}) :
          n \in {AttrNameLen(s, i)}})

\* what follows the opening quote in the minimal version's patterns:
\* https?:\/\/, \/ or \/\/; how many characters it takes at j, 0 when it
\* does not match
NativeLead(pass, s, j) ==
  CASE pass = "nativeAbsolute" ->
         IF AtNoCase(s, j, <<104, 116, 116, 112, 115, 58, 47, 47>>) THEN 8
         ELSE IF AtNoCase(s, j, <<104, 116, 116, 112, 58, 47, 47>>) THEN 7 ELSE 0
    [] pass = "nativeRoot" -> IF At(s, j, <<47>>) THEN 1 ELSE 0
    [] pass = "nativeRelative" -> IF At(s, j, <<47, 47>>) THEN 2 ELSE 0

\* the minimal version's patterns at i: the opening quote, the lead, then
\* [^"']+ (or [^"']*? in the pass for /) and a quote; pre is the
\* attribute's name
nativeMatch(pass, s, i) ==
  Only({IF q = 0 THEN NoMatch
        ELSE Only({IF lead = 0 THEN NoMatch
                   ELSE Only({IF k = 0 \/ (pass # "nativeRoot" /\ k = q + 1 + lead)
                              THEN NoMatch
                              ELSE AMatch(s, i, k + 1, i + AttrNameLen(s, i) - 1,
                                          q + 1 + lead, k - 1) :
                                k \in {NextIn(s, q + 1 + lead, Quotes)}}) :
                     lead \in {NativeLead(pass, s, q + 1)}}) :
          q \in {OpeningQuote(s, i)}})

\* the match of the pattern of a pass at i
Match(pass, s, i) ==
  CASE pass = "mw2" -> mw2AttrMatch(s, i)
    [] pass = "mw3Absolute" -> mw3AbsoluteMatch(s, i)
    [] pass = "mw3Relative" -> mw3RelativeMatch(s, i)
    [] OTHER -> nativeMatch(pass, s, i)

\* function shouldRewrite(u)
shouldRewrite(u) ==
  /\ u # <<>>
  /\ ~StartsWith(u, <<35>>)
  /\ ~StartsWith(u, <<100, 97, 116, 97, 58>>)
  /\ ~StartsWith(u, <<106, 97, 118, 97, 115, 99, 114, 105, 112, 116, 58>>)
  /\ ~StartsWith(u, <<47, 103, 111, 47>>)

\* '/go/' + encodeOrigin(url.origin) of the page's URL
BaseGo(base) == <<47, 103, 111, 47>> \o encodeOrigin(Codec(server), URL(base).origin)

\* the callback of the toolbar version's attribute pass
mw2Replace(m, base) ==
  IF ~shouldRewrite(m.val) THEN m.all
  ELSE Only({IF ~abs.ok THEN m.all
             ELSE m.pre \o <<47, 103, 111, 47>> \o encodeOrigin(Codec(server), abs.origin)
                    \o abs.rest \o <<m.pre[Len(m.pre)]>> :
               abs \in {UrlWithBase(IF StartsWith(m.val, <<47, 47>>)
                                    THEN URL(base).protocol \o m.val ELSE m.val,
                                    base)}})

\* what the minimal version's callbacks leave alone
AlreadyProxied(text) ==
  \/ Includes(text, <<97, 72, 82, 48, 99, 72, 77, 54, 76, 121, 56>>)
  \/ Includes(text, <<108, 111, 99, 97, 108, 104, 111, 115, 116, 58, 50, 52, 53, 54>>)

\* the callback of the minimal version's absolute and protocol-relative
\* passes: new URL(text), text being fullUrl or 'https://' + relUrl
nativeReplaceUrl(m, text) ==
  IF Includes(m.val, <<47, 103, 111, 47>>) \/ AlreadyProxied(m.val) THEN m.all
  ELSE Only({IF ~u.ok THEN m.all
             ELSE m.pre \o <<61, 34, 47, 103, 111, 47>> \o encodeOrigin(Codec(server), u.origin)
                    \o PathAndSearch(u.rest) \o <<34>> :
               u \in {URL(text)}})

\* the callback of the minimal version's pass for paths that start with /
nativeReplaceRoot(m, base) ==
  IF StartsWith(m.val, <<103, 111, 47>>) \/ AlreadyProxied(m.val) THEN m.all
  ELSE m.pre \o <<61, 34>> \o BaseGo(base) \o <<47>> \o m.val \o <<34>>

\* what a pass puts for the match m
Replacement(pass, m, base) ==
  CASE pass = "mw2" -> mw2Replace(m, base)
    [] pass = "mw3Absolute" -> m.pre \o BaseGo(base) \o <<47>>
    [] pass = "mw3Relative" -> m.pre \o BaseGo(base)
    [] pass = "nativeAbsolute" -> nativeReplaceUrl(m, m.val)
    [] pass = "nativeRoot" -> nativeReplaceRoot(m, base)
    [] pass = "nativeRelative" -> nativeReplaceUrl(m, <<104, 116, 116, 112, 115, 58, 47, 47>> \o m.val)

\* the index of the leftmost match of a pass at or after from, 0 when
\* there is none
FirstMatch(pass, s, from) ==
  IF \A i \in from..Len(s) : Match(pass, s, i).end = 0 THEN 0
  ELSE CHOOSE i \in from..Len(s) :
         /\ Match(pass, s, i).end > 0
         /\ \A j \in from..(i - 1) : Match(pass, s, j).end = 0

RECURSIVE ReplaceFrom(_, _, _, _)
ReplaceFrom(pass, s, from, base) ==
  Only({IF i = 0 THEN SubSeq(s, from, Len(s))
        ELSE Only({SubSeq(s, from, i - 1) \o Replacement(pass, m, base)
                     \o ReplaceFrom(pass, s, m.end, base) :
                     m \in {Match(pass, s, i)}}) :
          i \in {FirstMatch(pass, s, from)}})

\* body.replace(pattern, callback) with the g flag
ReplaceEvery(pass, text, base) ==
  Only({ReplaceFrom(pass, s, 1, base) : s \in {text}})

\* the index of the '>' that /<tag[^>]*>/i ends with when it starts at i,
\* 0 when it does not match; tag is '<body' or '<head'
TagEnd(s, i, tag) == IF AtNoCase(s, i, tag) THEN NextIn(s, i + Len(tag), {62}) ELSE 0

\* where /<tag[^>]*>/i matches first, 0 when nowhere
FirstTag(s, tag) ==
  IF \A i \in 1..Len(s) : TagEnd(s, i, tag) = 0 THEN 0
  ELSE CHOOSE i \in 1..Len(s) :
         TagEnd(s, i, tag) > 0 /\ \A j \in 1..(i - 1) : TagEnd(s, j, tag) = 0

\* text.replace(/<tag[^>]*>/i, m => m + ins): the first match only
InsertAfterTag(text, tag, ins) ==
  Only({Only({IF i = 0 THEN s
              ELSE Only({SubSeq(s, 1, k) \o ins \o SubSeq(s, k + 1, Len(s)) :
                           k \in {TagEnd(s, i, tag)}}) :
                i \in {FirstTag(s, tag)}}) :
          s \in {text}})

\* body.replace(/<body([^>]*)>/i, `<body$1>${ins}`): the first match only;
\* the tag's name comes out in lower case
ReplaceBodyTag(text, ins) ==
  Only({Only({IF i = 0 THEN s
              ELSE Only({SubSeq(s, 1, i - 1) \o <<60, 98, 111, 100, 121>> \o SubSeq(s, i + 5, k)
                           \o ins \o SubSeq(s, k + 1, Len(s)) :
                           k \in {TagEnd(s, i, <<60, 98, 111, 100, 121>>)}}) :
                i \in {FirstTag(s, <<60, 98, 111, 100, 121>>)}}) :
          s \in {text}})

\* text.replace(/<\/head>/i, ins + '</head>')
InsertBeforeHeadEnd(text, ins) ==
  Only({Only({IF i = 0 THEN s
              ELSE SubSeq(s, 1, i - 1) \o ins \o SubSeq(s, i, Len(s)) :
                i \in {IF \A k \in 1..Len(s) : ~AtNoCase(s, k, <<60, 47, 104, 101, 97, 100, 62>>) THEN 0
                       ELSE CHOOSE k \in 1..Len(s) :
                              /\ AtNoCase(s, k, <<60, 47, 104, 101, 97, 100, 62>>)
                              /\ \A j \in 1..(k - 1) : ~AtNoCase(s, j, <<60, 47, 104, 101, 97, 100, 62>>)}}) :
          s \in {text}})

\* the markup of the toolbar version of part_002: the toolbar and its
\* styles hold no href, src or action; the injected script holds
\* window.location.href='/';
toolbarHtml == <<-11>>
toolbarStyles == <<-12>>
baseScript == <<-13>>
inject == <<-14>> \o <<46, 104, 114, 101, 102, 61, 39, 47, 39, 59>> \o <<-15>>

\* the toolbar of part_003's first listing and the one of its second: each
\* holds <a href="/browser" ...>
toolbar == <<-16>> \o <<60, 97, 32, 104, 114, 101, 102, 61, 34, 47, 98, 114, 111, 119, 115, 101, 114, 34>> \o <<-17>>
nativeToolbar == <<-18>> \o <<60, 97, 32, 104, 114, 101, 102, 61, 34, 47, 98, 114, 111, 119, 115, 101, 114, 34>> \o <<-19>>

\* rewriteHtml of part_002.  Its pass over <meta http-equiv=refresh> is
\* left out: the pages drawn hold no meta element.
mw2RewriteHtml(html, base) ==
  Only({IF FirstTag(h, <<60, 104, 101, 97, 100>>) # 0
        THEN InsertAfterTag(h, <<60, 104, 101, 97, 100>>, baseScript \o inject)
        ELSE IF \E k \in 1..Len(h) : AtNoCase(h, k, <<60, 47, 104, 101, 97, 100, 62>>)
        THEN InsertBeforeHeadEnd(h, baseScript \o inject)
        ELSE baseScript \o inject \o h :
          h \in {ReplaceEvery("mw2",
                   InsertAfterTag(InsertAfterTag(html, <<60, 98, 111, 100, 121>>, toolbarHtml),
                                  <<60, 104, 101, 97, 100>>, toolbarStyles),
                   base)}})

\* rewriteHtml of part_003's first listing
mw3RewriteHtml(body, base) ==
  ReplaceBodyTag(
    ReplaceEvery("mw3Relative", ReplaceEvery("mw3Absolute", body, base), base),
    toolbar)

\* rewriteHtml of part_003's second listing; nothing in its try block
\* throws on a text
nativeRewriteHtml(body, base) ==
  Only({IF Includes(b, <<60, 104, 101, 97, 100, 62>>) /\ Includes(b, <<60, 98, 111, 100, 121, 62>>)
        THEN ReplaceBodyTag(b, nativeToolbar)
        ELSE b :
          b \in {ReplaceEvery("nativeRelative",
                   ReplaceEvery("nativeRoot",
                     ReplaceEvery("nativeAbsolute", body, base), base), base)}})

rewriteHtml(html, base) ==
  CASE server = "mw2" -> mw2RewriteHtml(html, base)
    [] server = "mw3" -> mw3RewriteHtml(html, base)
    [] server = "native" -> nativeRewriteHtml(html, base)

\* the pages drawn.  The URLs they are fetched from: 'https://example.com/'
\* and 'https://example.com/d/p'
DocBases == {<<104, 116, 116, 112, 115, 58, 47, 47, 101, 120, 97, 109, 112, 108, 101, 46, 99, 111, 109, 47>>, <<104, 116, 116, 112, 115, 58, 47, 47, 101, 120, 97, 109, 112, 108, 101, 46, 99, 111, 109, 47, 100, 47, 112>>}

\* '<a href="/x"><a href="https://other.org/y"><a href="#top">'
ScenarioDoc ==
  <<60, 97, 32, 104, 114, 101, 102, 61, 34, 47, 120, 34, 62, 60, 97, 32, 104, 114, 101, 102, 61, 34, 104, 116, 116, 112, 115, 58, 47, 47, 111, 116, 104, 101, 114, 46, 111, 114, 103, 47, 121, 34, 62, 60, 97, 32, 104, 114, 101, 102, 61, 34, 35, 116, 111, 112, 34, 62>>

\* the values of a page's one link: '/x', 'https://other.org/y', '#top',
\* 'x', '//other.org/y', 'data:x', 'javascript:x', and the /go path of
\* https://example.com/x
LinkValues ==
  {<<47, 120>>, <<104, 116, 116, 112, 115, 58, 47, 47, 111, 116, 104, 101, 114, 46, 111, 114, 103, 47, 121>>, <<35, 116, 111, 112>>, <<120>>, <<47, 47, 111, 116, 104, 101, 114, 46, 111, 114, 103, 47, 121>>,
   <<100, 97, 116, 97, 58, 120>>, <<106, 97, 118, 97, 115, 99, 114, 105, 112, 116, 58, 120>>,
   <<47, 103, 111, 47>> \o encodeOriginUrl(<<104, 116, 116, 112, 115, 58, 47, 47, 101, 120, 97, 109, 112, 108, 101, 46, 99, 111, 109>>) \o <<47, 120>>}

\* '<a href="' + v + '">'
Anchor(v) == <<60, 97, 32, 104, 114, 101, 102, 61, 34>> \o v \o <<34, 62>>

\* what stands in front of the link: nothing, or '<head><body>'
Frames == {<<>>, <<60, 104, 101, 97, 100, 62, 60, 98, 111, 100, 121, 62>>}

Docs == {ScenarioDoc} \cup {f \o Anchor(v) : f \in Frames, v \in LinkValues}

\* the 'end' handler calls rewriteHtml for the page it has received
Rewrite ==
  /\ dPhase = "fetched"
  /\ dPhase' = "rewritten"
  /\ once' = rewriteHtml(doc, dBase)
  /\ UNCHANGED <<codecVars, storeVars, proxyVars, headerVars, tlsVars, pageVars, reqVars, browserVars,
                 dBase, doc, twice>>

\* rewriteHtml is called for a body it has returned, with the same URL
RewriteAgain ==
  /\ dPhase = "rewritten"
  /\ dPhase' = "again"
  /\ twice' = rewriteHtml(once, dBase)
  /\ UNCHANGED <<codecVars, storeVars, proxyVars, headerVars, tlsVars, pageVars, reqVars, browserVars,
                 dBase, doc, once>>

RewriteInit ==
  /\ server \in Servers /\ StoreStart /\ CodecIdle /\ ProxyIdle
  /\ hTarget = Null /\ upCookie = Null /\ upLocation = Null
  /\ downCookie = Null /\ downLocation = Null /\ followed = Null
  /\ hPhase = "idle"
  /\ tlsReq = NoTlsReq /\ tlsConn = NoConn
  /\ page = NoPage /\ served = NoServed
  /\ dBase \in DocBases /\ doc \in Docs
  /\ once = Null /\ twice = Null /\ dPhase = "fetched"
  /\ clientHeaders = <<>> /\ upHeaders = <<>>
  /\ clientReq = NoClientReq /\ upReq = NoUpReq
  /\ BrowserIdle

RewriteNext == Rewrite \/ RewriteAgain

SpecRewrite == RewriteInit /\ [][RewriteNext]_vars

(***************************************************************************)
(* The headers of the upstream request on the rewriting path.  A headers   *)
(* object is the sequence of its <<key, value>> in insertion order; keys   *)
(* are case-sensitive in the object and case-insensitive on the wire.      *)
(***************************************************************************)
\* the lower-case form of the keys the code writes capitalised
LowerName(k) ==
  CASE k = "Host" -> "host"
    [] k = "User-Agent" -> "user-agent"
    [] k = "Accept" -> "accept"
    [] k = "Accept-Language" -> "accept-language"
    [] k = "Accept-Encoding" -> "accept-encoding"
    [] k = "Connection" -> "connection"
    [] k = "Upgrade-Insecure-Requests" -> "upgrade-insecure-requests"
    [] OTHER -> k

\* obj[key] = value
Assign(obj, key, value) ==
  IF \E i \in 1..Len(obj) : obj[i][1] = key
  THEN [i \in 1..Len(obj) |-> IF obj[i][1] = key THEN <<key, value>> ELSE obj[i]]
  ELSE Append(obj, <<key, value>>)

\* {...a, ...b}, or extend(a, b)
RECURSIVE Spread(_, _)
Spread(a, b) ==
  IF b = <<>> THEN a ELSE Spread(Assign(a, b[1][1], b[1][2]), Tail(b))

\* delete obj[key]
Delete(obj, key) == SelectSeq(obj, LAMBDA h : h[1] # key)

\* the headers http.request sends for a headers object: it calls setHeader
\* for each key in turn, and setHeader takes names without regard to case
RECURSIVE SendHeaders(_)
SendHeaders(obj) ==
  IF obj = <<>> THEN <<>>
  ELSE Append(SelectSeq(SendHeaders(SubSeq(obj, 1, Len(obj) - 1)),
                        LAMBDA h : h[1] # LowerName(obj[Len(obj)][1])),
              <<LowerName(obj[Len(obj)][1]), obj[Len(obj)][2]>>)

\* pReq.setHeader(name, value)
SetHeader(sent, name, value) ==
  Append(SelectSeq(sent, LAMBDA h : h[1] # name), <<name, value>>)

\* req.headers[name], "" when the request has none
HeaderOf(headers, name) ==
  IF \E i \in 1..Len(headers) : headers[i][1] = name
  THEN headers[CHOOSE i \in 1..Len(headers) : headers[i][1] = name][2]
  ELSE ""

\* url.host of the target, https://example.com
TargetHost == "example.com"

\* baseOptions.headers of the middleware versions
mwOptionHeaders(srv) ==
  <<<<"User-Agent", "Mozilla/5.0 Chrome/120">>,
    <<"Accept", "text/html,image/webp">>,
    <<"Accept-Language", "en-US">>,
    <<"Accept-Encoding", IF srv = "mw2" THEN "gzip, deflate, br" ELSE "gzip, deflate">>,
    <<"Connection", "keep-alive">>>>
  \o IF srv = "mw2" THEN <<<<"Upgrade-Insecure-Requests", "1">>>> ELSE <<>>

\* the middleware versions: the proxy copies req.headers, lays the headers
\* option over them and, changeOrigin being set, sets host; onProxyReq then
\* sets its headers on the request
mwUpstreamHeaders(srv, headers) ==
  LET outgoing == Assign(Spread(headers, mwOptionHeaders(srv)), "host", TargetHost)
      s1 == SetHeader(SendHeaders(outgoing), "accept-encoding", "gzip, deflate")
      s2 == IF HeaderOf(headers, "range") # ""
            THEN SetHeader(s1, "range", HeaderOf(headers, "range")) ELSE s1
  IN  IF srv = "mw2"
      THEN SetHeader(SetHeader(s2, "cache-control", "no-cache"), "pragma", "no-cache")
      ELSE s2

\* the keys the native version deletes from options.headers
Deleted ==
  <<"connection", "upgrade", "proxy-authorization", "proxy-authenticate", "te",
    "trailers", "transfer-encoding">>

RECURSIVE DeleteEach(_, _)
DeleteEach(obj, keys) ==
  IF keys = <<>> THEN obj ELSE DeleteEach(Delete(obj, keys[1]), Tail(keys))

\* the native version: options.headers, then the deletes
nativeUpstreamHeaders(headers) ==
  SendHeaders(
    DeleteEach(
      Spread(headers,
             <<<<"Host", TargetHost>>,
               <<"User-Agent", "Mozilla/5.0 AppleWebKit/537.36">>,
               <<"Accept", "text/html,*/*">>>>),
      Deleted))

\* handleProxy without raw, up to the upstream request being sent
ForwardHeaders ==
  /\ clientHeaders # <<>> /\ upHeaders = <<>>
  /\ upHeaders' = IF server = "native" THEN nativeUpstreamHeaders(clientHeaders)
                  ELSE mwUpstreamHeaders(server, clientHeaders)
  /\ UNCHANGED <<codecVars, storeVars, proxyVars, headerVars, tlsVars, pageVars, docVars,
                 browserVars, clientHeaders, clientReq, upReq>>

\* the headers a client may send besides host and user-agent, in the
\* request's order
OptionalHeaders ==
  <<<<"connection", "keep-alive, upgrade">>, <<"upgrade", "websocket">>,
    <<"proxy-authenticate", "Basic">>, <<"proxy-authorization", "Basic eDp5">>,
    <<"te", "trailers">>, <<"trailers", "x-sum">>, <<"transfer-encoding", "chunked">>,
    <<"range", "bytes=0-9">>>>

ForwardInit ==
  /\ server \in Servers /\ StoreStart /\ CodecIdle /\ ProxyIdle
  /\ hTarget = Null /\ upCookie = Null /\ upLocation = Null
  /\ downCookie = Null /\ downLocation = Null /\ followed = Null
  /\ hPhase = "idle"
  /\ tlsReq = NoTlsReq /\ tlsConn = NoConn
  /\ page = NoPage /\ served = NoServed
  /\ dBase = Null /\ doc = Null /\ once = Null /\ twice = Null /\ dPhase = "idle"
  /\ \E names \in SUBSET {OptionalHeaders[i][1] : i \in 1..Len(OptionalHeaders)} :
       clientHeaders =
         <<<<"host", "localhost:2456">>, <<"user-agent", "curl/8">>>>
         \o SelectSeq(OptionalHeaders, LAMBDA h : h[1] \in names)
  /\ upHeaders = <<>>
  /\ clientReq = NoClientReq /\ upReq = NoUpReq
  /\ BrowserIdle

SpecForward == ForwardInit /\ [][ForwardHeaders]_vars

\* the same requests, with what Node's event loop guarantees: a timer that is
\* armed fires, and the 'error' a destroyed request or an aborted response
\* has pending is delivered.  Nothing obliges the upstream to answer, to
\* send data or to end.
ProxyFairness ==
  /\ WF_vars(RequestTimeout)
  /\ WF_vars(SafetyTimer)
  /\ WF_vars(RequestError /\ attempt.up = "destroyed")
  /\ WF_vars(ResponseError /\ attempt.up = "aborting")

SpecProxyLive == ProxyInit /\ [][ProxyNext]_vars /\ ProxyFairness

(***************************************************************************)
(* The native version when the client goes away.  handleProxy puts no      *)
(* listener on req or res for 'close' or 'aborted': the upstream request   *)
(* goes on, and what is written to res is dropped.                         *)
(***************************************************************************)
ClientDisconnect ==
  /\ pc = "active" /\ server = "native"
  /\ attempt.issued /\ ~attempt.raw /\ ~attempt.clientGone /\ ~res.finished
  /\ attempt' = [attempt EXCEPT !.clientGone = TRUE]
  /\ UNCHANGED <<storeVars, nonProxyVars, pc, res, attempts>>

DisconnectInit ==
  server = "native" /\ StoreStart /\ CodecIdle /\ ProxyIdle /\ HeadersIdle

DisconnectNext ==
  \/ InitSqlite
  \/ InitFallback
  \/ Tick
  \/ \E oid \in OriginIds, rest \in Rests : GoRoute(oid, rest)
  \/ \E st \in UpstreamStatuses, html \in BOOLEAN : UpstreamResponse(st, html)
  \/ UpstreamData
  \/ UpstreamEnd
  \/ RequestError
  \/ SocketError
  \/ RequestTimeout
  \/ ResponseError
  \/ ClientDisconnect
  \/ Release

SpecDisconnect == DisconnectInit /\ [][DisconnectNext]_vars

(***************************************************************************)
(* The /go route for the paths a client may request: the paths of          *)
(* rewritten links and redirects, and such a path under another one.       *)
(***************************************************************************)
\* the identifiers of http://a and https://example.com
GoIds == {encodeOriginUrl(<<104, 116, 116, 112, 58, 47, 47, 97>>), encodeOriginUrl(<<104, 116, 116, 112, 115, 58, 47, 47, 101, 120, 97, 109, 112, 108, 101, 46, 99, 111, 109>>)}

\* what follows the identifier: '', '/p', '?q', '/p?q', '/d/p'; a /go path
\* of https://1 (its identifier, aHR0cHM6Ly8x, holds 'aHR0cHM6Ly8') with
\* '/p' behind it, with nothing behind it, and below '/a'; and a /go path
\* of https://b (aHR0cHM6Ly9i) with '/p' behind it
GoRests ==
  {<<>>, <<47, 112>>, <<63, 113>>, <<47, 112, 63, 113>>, <<47, 100, 47, 112>>,
   <<47, 103, 111, 47>> \o encodeOriginUrl(<<104, 116, 116, 112, 115, 58, 47, 47, 49>>) \o <<47, 112>>,
   <<47, 103, 111, 47>> \o encodeOriginUrl(<<104, 116, 116, 112, 115, 58, 47, 47, 49>>),
   <<47, 97, 47, 103, 111, 47>> \o encodeOriginUrl(<<104, 116, 116, 112, 115, 58, 47, 47, 49>>) \o <<47, 112>>,
   <<47, 103, 111, 47>> \o encodeOriginUrl(<<104, 116, 116, 112, 115, 58, 47, 47, 98>>) \o <<47, 112>>}

GoInit ==
  /\ server \in Servers /\ StoreStart /\ CodecIdle /\ ProxyIdle
  /\ hTarget = Null /\ upCookie = Null /\ upLocation = Null
  /\ downCookie = Null /\ followed = Null
  /\ \E id \in GoIds, rest \in GoRests : downLocation = <<47, 103, 111, 47>> \o id \o rest
  /\ hPhase = "rewritten"
  /\ tlsReq = NoTlsReq /\ tlsConn = NoConn
  /\ page = NoPage /\ served = NoServed
  /\ DocIdle

SpecGo == GoInit /\ [][FollowRedirect]_vars

(***************************************************************************)
(* The store of one process: its initialization, the entries recorded and  *)
(* the reads made.                                                         *)
(***************************************************************************)
AppendNext ==
  \/ InitSqlite
  \/ InitFallback
  \/ \E k \in RecordKinds : Record(k[1], k[2])
  \/ \E ok \in BOOLEAN : PersistTick(ok)
  \/ \E n \in 0..(MaxRecords + 1) : GetRecentHistory(n)
  \/ GetStats
  \/ ReadReturn

SpecAppend == StoreInit /\ [][AppendNext]_vars

(***************************************************************************)
(* The method and the body of the upstream request on the rewriting path:  *)
(* express.json and express.urlencoded run before the routes and read the  *)
(* bodies of their types; the native handleProxy writes                    *)
(* JSON.stringify(req.body), the middleware pipes what is left of req.     *)
(***************************************************************************)
\* a number's decimal digits
RECURSIVE ToDigits(_)
ToDigits(n) ==
  IF n < 10 THEN <<48 + n>> ELSE ToDigits(n \div 10) \o <<48 + (n % 10)>>

\* req.body when no parser has read a body: {} under body-parser 1
\* (Express 4), undefined under body-parser 2 (Express 5)
Unparsed(legacy) ==
  [kind |-> IF legacy THEN "empty" ELSE "unset", key |-> <<>>, quoted |-> FALSE,
   text |-> <<>>, num |-> 0]

\* JSON.parse for the bodies drawn: an object with no member, or with one
\* member whose value is a natural number; blanks between the tokens
JsonParse(t) ==
  LET open  == SkipSpaces(Tail(SkipSpaces(t)))
      q2    == NextIn(open, 2, {34})
      colon == SkipSpaces(SubSeq(open, q2 + 1, Len(open)))
      value == LeadingDigits(SkipSpaces(Tail(colon)))
  IN  IF open[1] = 125
      THEN [kind |-> "empty", key |-> <<>>, quoted |-> FALSE, text |-> <<>>, num |-> 0]
      ELSE [kind |-> "object", key |-> SubSeq(open, 2, q2 - 1), quoted |-> FALSE,
            text |-> <<>>, num |-> DigitsValue(value)]

\* qs.parse for the bodies drawn: one pair key=value, the value a string
QsParse(t) ==
  LET eq == NextIn(t, 1, {61})
  IN  [kind |-> "object", key |-> SubSeq(t, 1, eq - 1), quoted |-> TRUE,
       text |-> SubSeq(t, eq + 1, Len(t)), num |-> 0]

\* JSON.stringify of such an object
JsonStringify(o) ==
  IF o.kind = "empty" THEN <<123, 125>>
  ELSE <<123>> \o <<34>> \o o.key \o <<34>> \o <<58>>
       \o (IF o.quoted THEN <<34>> \o o.text \o <<34>> ELSE ToDigits(o.num))
       \o <<125>>

\* the types express.json() and express.urlencoded() read
ParsedTypes == {"application/json", "application/x-www-form-urlencoded"}

\* whether a body parser has read the request's stream to its end
Consumed(req) == req.body # Null /\ req.type \in ParsedTypes

\* req.body when the route is reached
bodyParsers(req, legacy) ==
  IF ~Consumed(req) THEN Unparsed(legacy)
  ELSE IF req.type = "application/json" THEN JsonParse(req.body)
  ELSE QsParse(req.body)

\* if (req.body && (POST || PUT || PATCH)) proxyReq.write(JSON.stringify(req.body))
nativeBody(req, legacy) ==
  IF bodyParsers(req, legacy).kind # "unset" /\ req.method \in {"POST", "PUT", "PATCH"}
  THEN JsonStringify(bodyParsers(req, legacy))
  ELSE Null

\* the proxy pipes req into the upstream request: a stream a parser has
\* read to its end gives nothing any more
mwBody(req) == IF Consumed(req) THEN Null ELSE req.body

\* handleProxy without raw: the upstream request's method and body
ForwardBody ==
  /\ clientReq # NoClientReq /\ ~upReq.sent
  /\ \E legacy \in BOOLEAN :
       upReq' = [sent |-> TRUE, method |-> clientReq.method,
                 body |-> IF server = "native" THEN nativeBody(clientReq, legacy)
                          ELSE mwBody(clientReq)]
  /\ UNCHANGED <<codecVars, storeVars, proxyVars, headerVars, tlsVars, pageVars, docVars,
                 browserVars, clientHeaders, upHeaders, clientReq>>

Methods == {"GET", "POST", "PUT", "PATCH", "DELETE"}

\* a request's content type and body: none; '{"a":1}' and '{ "a": 1 }' as
\* JSON; JSON announced and no body; 'a=1' as a form; 'hi' as text
Payloads ==
  {<<"", Null>>,
   <<"application/json", <<123>> \o <<34>> \o <<97>> \o <<34>> \o <<58, 49, 125>>>>,
   <<"application/json", <<123, 32>> \o <<34>> \o <<97>> \o <<34>> \o <<58, 32, 49, 32, 125>>>>,
   <<"application/json", Null>>,
   <<"application/x-www-form-urlencoded", <<97, 61, 49>>>>,
   <<"text/plain", <<104, 105>>>>}

BodyInit ==
  /\ server \in Servers /\ StoreStart /\ CodecIdle /\ ProxyIdle
  /\ hTarget = Null /\ upCookie = Null /\ upLocation = Null
  /\ downCookie = Null /\ downLocation = Null /\ followed = Null
  /\ hPhase = "idle"
  /\ tlsReq = NoTlsReq /\ tlsConn = NoConn
  /\ page = NoPage /\ served = NoServed
  /\ dBase = Null /\ doc = Null /\ once = Null /\ twice = Null /\ dPhase = "idle"
  /\ clientHeaders = <<>> /\ upHeaders = <<>>
  /\ \E m \in Methods, p \in Payloads :
       clientReq = [method |-> m, type |-> p[1], body |-> p[2]]
  /\ upReq = NoUpReq
  /\ BrowserIdle

SpecBody == BodyInit /\ [][ForwardBody]_vars

(***************************************************************************)
(* ProxyBrowser, the script of the browser view (part_001). The markup of  *)
(* the view is no part of the sources: the tab and content elements are    *)
(* those the script creates, in the order of this.tabs, and whether an     *)
(* element the script has not filled holds the start page is open.         *)
(***************************************************************************)
\* this.maxTabs, 10 in the source (part_001:7), scaled down
maxTabs == 3
\* the entries a tab's history grows to in one behaviour
MaxHistory == 3
\* the tabs opened on one page in one behaviour
MaxOpened == 3

StartUrl == <<112, 114, 111, 120, 121, 58, 47, 47, 115, 116, 97, 114, 116>>

HomeUrl == <<112, 114, 111, 120, 121, 58, 47, 47, 104, 111, 109, 101>>

SettingsUrl == <<112, 114, 111, 120, 121, 58, 47, 47, 115, 101, 116, 116, 105, 110, 103, 115>>

HistoryUrl == <<112, 114, 111, 120, 121, 58, 47, 47, 104, 105, 115, 116, 111, 114, 121>>

\* createNewTab's tabData with the content element made for it; tab.id is
\* the tab's index at all times (updateTabIndices) and is left out
NewTab(el, url, title) ==
  [el |-> el, url |-> url, title |-> title, history |-> <<url>>, historyIndex |-> 0,
   loading |-> FALSE, content |-> "initial"]

\* this.tabs[tabIndex] exists
HasTab(ts, tabIndex) == tabIndex >= 0 /\ tabIndex < Len(ts)

\* updateTabTitle(tabIndex, title)
updateTabTitle(ts, tabIndex, title) ==
  IF HasTab(ts, tabIndex) THEN [ts EXCEPT ![tabIndex + 1].title = title] ELSE ts

\* setTabLoading(tabIndex, loading)
setTabLoading(ts, tabIndex, loading) ==
  IF HasTab(ts, tabIndex) THEN [ts EXCEPT ![tabIndex + 1].loading = loading] ELSE ts

\* loadTabContent's history step with the test for a new URL left out
addToHistoryAlways(tab, url) ==
  [tab EXCEPT !.history = Append(SubSeq(tab.history, 1, tab.historyIndex + 1), url),
              !.historyIndex = tab.historyIndex + 1]

\* loadTabContent: "Add to history if it's a new URL"
addToHistory(tab, url) ==
  IF tab.history[tab.historyIndex + 1] # url
  THEN [tab EXCEPT !.history = Append(SubSeq(tab.history, 1, tab.historyIndex + 1), url),
                   !.historyIndex = tab.historyIndex + 1]
  ELSE tab

\* contentElement.innerHTML = ...: an iframe the element held is gone, and
\* its load with it
WithoutFrame(ls, el) == {l \in ls : ~(l.kind = "frame" /\ l.el = el)}

\* the outcome of a call: the tabs, the loads, and whether the page is
\* left for /browser
Outcome(ts, ls, leaves) == [tabs |-> ts, loads |-> ls, reload |-> leaves]

\* loadTabContent(tabIndex, url) from the history step on, for the tabs ts
\* whose tab tabIndex has its url and history set; found tells whether
\* loadStartPage finds the start page in the content element
showContent(ts, ls, act, tabIndex, url, found) ==
  IF url \in {StartUrl, HomeUrl}
  THEN IF ts[tabIndex + 1].content = "initial" /\ found
       THEN Outcome(setTabLoading(updateTabTitle(ts, act, <<78, 101, 119, 32, 84, 97, 98>>), tabIndex, FALSE),
                    ls, FALSE)
       ELSE Outcome(ts, ls, TRUE)
  ELSE IF url = SettingsUrl
  THEN Outcome(setTabLoading(
                 updateTabTitle([ts EXCEPT ![tabIndex + 1].content = "page"],
                                act, <<83, 101, 116, 116, 105, 110, 103, 115>>), tabIndex, FALSE),
               WithoutFrame(ls, ts[tabIndex + 1].el), FALSE)
  ELSE IF url = HistoryUrl
  THEN Outcome(setTabLoading(ts, tabIndex, FALSE),
               ls \cup {[kind |-> "history", tabIndex |-> tabIndex,
                         el |-> ts[tabIndex + 1].el, url |-> url]},
               FALSE)
  ELSE Outcome([ts EXCEPT ![tabIndex + 1].content = "frame"],
               WithoutFrame(ls, ts[tabIndex + 1].el)
                 \cup {[kind |-> "frame", tabIndex |-> tabIndex,
                        el |-> ts[tabIndex + 1].el, url |-> url]},
               FALSE)

\* loadTabContent(tabIndex, url)
loadTabContent(ts, ls, act, tabIndex, url, found) ==
  IF ~HasTab(ts, tabIndex) THEN Outcome(ts, ls, FALSE)
  ELSE showContent(
         [ts EXCEPT ![tabIndex + 1] =
            addToHistory([ts[tabIndex + 1] EXCEPT !.loading = TRUE, !.url = url], url)],
         ls, act, tabIndex, url, found)

\* the page after the constructor has run on the view: one tab, on the
\* start page
StartTabs == <<NewTab(1, StartUrl, <<78, 101, 119, 32, 84, 97, 98>>)>>

BrowserStart == tabs = StartTabs /\ activeTab = 0 /\ loads = {} /\ opened = 1

\* a handler that has called loadTabContent is done: the tabs and loads it
\* leaves, or the view loaded anew (window.location.href = '/browser')
Shown(r) ==
  IF r.reload
  THEN tabs' = StartTabs /\ activeTab' = 0 /\ loads' = {} /\ opened' = 1
  ELSE tabs' = r.tabs /\ loads' = r.loads /\ UNCHANGED <<activeTab, opened>>

\* the history the call may add to has room in this behaviour
Room(url) ==
  HasTab(tabs, activeTab)
    => \/ tabs[activeTab + 1].history[tabs[activeTab + 1].historyIndex + 1] = url
       \/ tabs[activeTab + 1].historyIndex + 1 < MaxHistory

\* String.prototype.trim, for blanks
RECURSIVE TrimEnd(_)
TrimEnd(s) == IF s # <<>> /\ s[Len(s)] = 32 THEN TrimEnd(SubSeq(s, 1, Len(s) - 1)) ELSE s

trim(s) == TrimEnd(SkipSpaces(s))

HexDigit(n) == IF n < 10 THEN 48 + n ELSE 55 + n

\* encodeURIComponent on ASCII: letters, digits and - _ . ! ~ * ' ( ) stay
RECURSIVE EncodeURIComponent(_)
EncodeURIComponent(s) ==
  IF s = <<>> THEN <<>>
  ELSE (IF IsAlpha(s[1]) \/ IsDigit(s[1]) \/ s[1] \in {45, 95, 46, 33, 126, 42, 39, 40, 41}
        THEN <<s[1]>>
        ELSE <<37, HexDigit(s[1] \div 16), HexDigit(s[1] % 16)>>)
       \o EncodeURIComponent(Tail(s))

\* navigate(input): the URL it loads
NavigateUrl(input) ==
  IF ~URL(trim(input)).ok
  THEN <<104, 116, 116, 112, 115, 58, 47, 47, 119, 119, 119, 46, 103, 111, 111, 103, 108, 101, 46, 99, 111, 109, 47, 115, 101, 97, 114, 99, 104, 63, 113, 61>> \o EncodeURIComponent(trim(input))
  ELSE IF /\ ~StartsWith(trim(input), <<104, 116, 116, 112, 58, 47, 47>>)
          /\ ~StartsWith(trim(input), <<104, 116, 116, 112, 115, 58, 47, 47>>)
          /\ ~StartsWith(trim(input), <<112, 114, 111, 120, 121, 58, 47, 47>>)
       THEN <<104, 116, 116, 112, 115, 58, 47, 47>> \o trim(input)
       ELSE trim(input)

\* navigate(input)
navigate(input, found) ==
  /\ tabs # <<>> /\ trim(input) # <<>>
  /\ Room(NavigateUrl(input))
  /\ Shown(loadTabContent(tabs, loads, activeTab, activeTab, NavigateUrl(input), found))
  /\ UNCHANGED <<codecVars, storeVars, proxyVars, headerVars, tlsVars, pageVars, docVars,
                 reqVars>>

\* goBack() and goForward(), by -1 and 1
Step(by, found) ==
  /\ tabs # <<>> /\ HasTab(tabs, activeTab)
  /\ tabs[activeTab + 1].historyIndex + by >= 0
  /\ tabs[activeTab + 1].historyIndex + by <= Len(tabs[activeTab + 1].history) - 1
  /\ Shown(loadTabContent(
             [tabs EXCEPT ![activeTab + 1].historyIndex = @ + by], loads, activeTab,
             activeTab,
             tabs[activeTab + 1].history[tabs[activeTab + 1].historyIndex + by + 1],
             found))
  /\ UNCHANGED <<codecVars, storeVars, proxyVars, headerVars, tlsVars, pageVars, docVars,
                 reqVars>>

goBack(found) == Step(-1, found)

goForward(found) == Step(1, found)

\* a handler that loads url into the active tab
Load(url, found) ==
  /\ tabs # <<>>
  /\ Room(url)
  /\ Shown(loadTabContent(tabs, loads, activeTab, activeTab, url, found))
  /\ UNCHANGED <<codecVars, storeVars, proxyVars, headerVars, tlsVars, pageVars, docVars,
                 reqVars>>

\* refresh()
refresh(found) == HasTab(tabs, activeTab) /\ Load(tabs[activeTab + 1].url, found)

\* goHome()
goHome(found) == Load(StartUrl, found)

\* openSettings()
openSettings == Load(SettingsUrl, TRUE)

\* handleContextAction('history')
openHistory == Load(HistoryUrl, TRUE)

\* iframe.onload: title is the frame document's title, or the host name
FrameLoaded(l, title) ==
  /\ l \in loads /\ l.kind = "frame"
  /\ tabs' = updateTabTitle(setTabLoading(tabs, l.tabIndex, FALSE), l.tabIndex, title)
  /\ loads' = loads \ {l}
  /\ UNCHANGED <<codecVars, storeVars, proxyVars, headerVars, tlsVars, pageVars, docVars,
                 reqVars, activeTab, opened>>

\* the content element el is given new markup
Filled(ts, el) ==
  [i \in 1..Len(ts) |-> IF ts[i].el = el THEN [ts[i] EXCEPT !.content = "page"] ELSE ts[i]]

\* iframe.onerror
FrameFailed(l) ==
  /\ l \in loads /\ l.kind = "frame"
  /\ tabs' = Filled(setTabLoading(tabs, l.tabIndex, FALSE), l.el)
  /\ loads' = loads \ {l}
  /\ UNCHANGED <<codecVars, storeVars, proxyVars, headerVars, tlsVars, pageVars, docVars,
                 reqVars, activeTab, opened>>

\* loadHistoryPage: the fetch of /api/history is answered
HistoryLoaded(l) ==
  /\ l \in loads /\ l.kind = "history"
  /\ tabs' = updateTabTitle(Filled(tabs, l.el), activeTab, <<72, 105, 115, 116, 111, 114, 121>>)
  /\ loads' = WithoutFrame(loads, l.el) \ {l}
  /\ UNCHANGED <<codecVars, storeVars, proxyVars, headerVars, tlsVars, pageVars, docVars,
                 reqVars, activeTab, opened>>

\* loadHistoryPage: the fetch fails
HistoryFailed(l) ==
  /\ l \in loads /\ l.kind = "history"
  /\ tabs' = Filled(tabs, l.el)
  /\ loads' = WithoutFrame(loads, l.el) \ {l}
  /\ UNCHANGED <<codecVars, storeVars, proxyVars, headerVars, tlsVars, pageVars, docVars,
                 reqVars, activeTab, opened>>

\* the title an iframe's load gives: the document's, or the host name
FrameTitles(l) == {<<80, 97, 103, 101>>, URL(l.url).host}

\* what is typed into the address bar: nothing but blanks, a URL, a host
\* name without scheme, a word, and the settings page
Inputs ==
  {<<32, 32>>, <<32, 104, 116, 116, 112, 115, 58, 47, 47, 97, 46, 116, 101, 115, 116, 47, 32>>, <<97, 46, 116, 101, 115, 116>>, <<108, 111, 99, 97, 108, 104, 111, 115, 116, 58, 56, 48>>, <<99, 32, 100>>,
   <<112, 114, 111, 120, 121, 58, 47, 47, 115, 101, 116, 116, 105, 110, 103, 115>>}

BrowserInit ==
  /\ server = "native" /\ StoreStart /\ CodecIdle /\ ProxyIdle
  /\ hTarget = Null /\ upCookie = Null /\ upLocation = Null
  /\ downCookie = Null /\ downLocation = Null /\ followed = Null
  /\ hPhase = "idle"
  /\ tlsReq = NoTlsReq /\ tlsConn = NoConn
  /\ page = NoPage /\ served = NoServed
  /\ dBase = Null /\ doc = Null /\ once = Null /\ twice = Null /\ dPhase = "idle"
  /\ clientHeaders = <<>> /\ upHeaders = <<>>
  /\ clientReq = NoClientReq /\ upReq = NoUpReq
  /\ BrowserStart

\* one tab and its navigation
NavNext ==
  \/ \E input \in Inputs, found \in BOOLEAN : navigate(input, found)
  \/ \E found \in BOOLEAN : goBack(found)
  \/ \E found \in BOOLEAN : goForward(found)
  \/ \E found \in BOOLEAN : refresh(found)
  \/ \E found \in BOOLEAN : goHome(found)
  \/ openSettings
  \/ openHistory
  \/ \E l \in loads : \E title \in FrameTitles(l) : FrameLoaded(l, title)
  \/ \E l \in loads : FrameFailed(l)
  \/ \E l \in loads : HistoryLoaded(l)
  \/ \E l \in loads : HistoryFailed(l)

SpecNav == BrowserInit /\ [][NavNext]_vars

\* createNewTab(): a tab on the start page, made active, its content loaded
createNewTab(found) ==
  /\ tabs # <<>>
  /\ Len(tabs) < maxTabs
  /\ opened < MaxOpened
  /\ IF loadTabContent(Append(tabs, NewTab(opened + 1, StartUrl, <<78, 101, 119, 32, 84, 97, 98>>)), loads,
                       Len(tabs), Len(tabs), StartUrl, found).reload
     THEN Shown(Outcome(tabs, loads, TRUE))
     ELSE /\ tabs' = loadTabContent(
                       Append(tabs, NewTab(opened + 1, StartUrl, <<78, 101, 119, 32, 84, 97, 98>>)), loads,
                       Len(tabs), Len(tabs), StartUrl, found).tabs
          /\ activeTab' = Len(tabs)
          /\ opened' = opened + 1
          /\ UNCHANGED loads
  /\ UNCHANGED <<codecVars, storeVars, proxyVars, headerVars, tlsVars, pageVars, docVars,
                 reqVars>>

\* createNewTab() with this.maxTabs tabs open: the notification, no tab
createNewTabRefused ==
  /\ tabs # <<>>
  /\ Len(tabs) >= maxTabs
  /\ UNCHANGED vars

\* Array.prototype.splice(tabIndex, 1)
Splice(ts, tabIndex) ==
  SubSeq(ts, 1, tabIndex) \o SubSeq(ts, tabIndex + 2, Len(ts))

\* closeTab(tabIndex), for the tab whose close button is clicked or, with
\* Ctrl+W, the active one: the elements and the tab are removed, and
\* this.activeTab is lowered only when it is past the end
closeTab(tabIndex) ==
  /\ HasTab(tabs, tabIndex)
  /\ IF Len(tabs) <= 1
     THEN UNCHANGED browserVars
     ELSE /\ tabs' = Splice(tabs, tabIndex)
          /\ loads' = WithoutFrame(loads, tabs[tabIndex + 1].el)
          /\ activeTab' = IF activeTab >= Len(tabs) - 1 THEN Len(tabs) - 2 ELSE activeTab
          /\ UNCHANGED opened
  /\ UNCHANGED <<codecVars, storeVars, proxyVars, headerVars, tlsVars, pageVars, docVars,
                 reqVars>>

\* switchTab(tabIndex)
switchTab(tabIndex) ==
  /\ tabs # <<>>
  /\ activeTab' = IF HasTab(tabs, tabIndex) THEN tabIndex ELSE activeTab
  /\ UNCHANGED <<codecVars, storeVars, proxyVars, headerVars, tlsVars, pageVars, docVars,
                 reqVars, tabs, loads, opened>>

\* the entries a tab's history grows to where several tabs are open
MaxTabHistory == 2

\* the active tab's history has room for a visit
TabRoom == HasTab(tabs, activeTab) /\ Len(tabs[activeTab + 1].history) < MaxTabHistory

\* the tabs, with one site and the history page to visit
TabsNext ==
  \/ \E found \in BOOLEAN : createNewTab(found)
  \/ createNewTabRefused
  \/ \E i \in 0..(maxTabs - 1) : closeTab(i)
  \/ \E i \in 0..maxTabs : switchTab(i)
  \/ TabRoom /\ navigate(<<97, 46, 116, 101, 115, 116>>, TRUE)
  \/ TabRoom /\ openHistory
  \/ \E l \in loads : FrameLoaded(l, URL(l.url).host)
  \/ \E l \in loads : FrameFailed(l)
  \/ \E l \in loads : HistoryLoaded(l)
  \/ \E l \in loads : HistoryFailed(l)

SpecTabs == BrowserInit /\ [][TabsNext]_vars


(***************************************************************************)
(* PROPERTIES                                                              *)
(***************************************************************************)

(***************************************************************************)
(* Properties of the codec.                                                *)
(***************************************************************************)
\* a character of the base64url alphabet: A-Z a-z 0-9 '-' '_'
IsUrlSafeChar(c) == IsAlpha(c) \/ IsDigit(c) \/ c = 45 \/ c = 95

UrlSafe(id) == \A i \in 1..Len(id) : IsUrlSafeChar(id[i])

\* scheme://host: letters, "://", then a host holding neither ':' nor '/'
WellFormedOrigin(o) ==
  \E k \in 1..Len(o) :
    /\ \A i \in 1..k : IsAlpha(o[i])
    /\ Len(o) > k + 3
    /\ SubSeq(o, k + 1, k + 3) = <<58, 47, 47>>
    /\ \A i \in (k + 4)..Len(o) : o[i] \notin {58, 47}

ValidUtf8(bytes) == Utf8Encode(Utf8Decode(bytes)) = bytes

\* an identifier no encodeOrigin produces: a character outside the
\* base64url alphabet, or bytes that are not UTF-8
Malformed(id) == ~UrlSafe(id) \/ ~ValidUtf8(FromBase64(id))

\* what the /go handler takes for BadOriginId: if (!origin)
IsBadOriginId(origin) == origin = Null \/ origin = <<>>

\* C5: decodeOrigin of a malformed identifier (a character outside the
\* base64url alphabet, or bytes that are not UTF-8) yields BadOriginId.
C5_MalformedIsBadOriginId ==
  (cPhase = "decoded" /\ Malformed(cId)) => IsBadOriginId(cDecoded)

\* C6: for every origin text, decodeOrigin(encodeOrigin(o)) = o, and
\* encodeOrigin(o) holds only URL-safe characters and no '=' padding, in
\* both codec implementations.
C6_RoundTrip ==
  /\ cPhase \in {"encoded", "roundtrip"} => UrlSafe(cId)
  /\ cPhase = "roundtrip" => cDecoded = cOrigin

\* C6 witness: a well-formed origin went through the manual codec, its
\* identifier holds a remapped '-' or '_' and had padding to strip.
C6_Witness ==
  /\ cPhase = "roundtrip"
  /\ cCodec = "manual"
  /\ WellFormedOrigin(cOrigin)
  /\ \E i \in 1..Len(cId) : cId[i] \in {45, 95}
  /\ Len(cId) % 4 # 0
  /\ cDecoded = cOrigin

(***************************************************************************)
(* Properties of the history store.                                        *)
(***************************************************************************)
\* every entry recorded and retained, in recording order
Recorded == IF mode = "sqlite" THEN dbRows ELSE mem

\* newest first: no entry comes before one created later
NewestFirst(rows) ==
  \A i, j \in 1..Len(rows) : i < j => rows[i].created_at >= rows[j].created_at

Ids(rows) == {rows[i].id : i \in 1..Len(rows)}

\* rows are among the recorded entries, and none left out is newer than one
\* returned
MostRecent(rows) ==
  /\ \A i \in 1..Len(rows) : \E k \in 1..Len(Recorded) : Recorded[k] = rows[i]
  /\ Cardinality(Ids(rows)) = Len(rows)
  /\ \A k \in 1..Len(Recorded) :
       Recorded[k].id \notin Ids(rows)
         => \A i \in 1..Len(rows) : Recorded[k].created_at <= rows[i].created_at

\* C7: for every store state and every limit n >= 0, getRecentHistory(n)
\* returns at most n entries, the most recently recorded ones, newest first.
C7_RecentAtMostNNewestFirst ==
  (storePhase = "ready" /\ out.op = "recent")
    => /\ Len(out.rows) <= out.limit.v
       /\ MostRecent(out.rows)
       /\ NewestFirst(out.rows)

\* C8: GET /api/history returns at most 1000 entries (ApiMaxLimit, the
\* scaled ceiling), newest first, whatever the limit parameter and the
\* store size.
C8_ApiAtMostMaxNewestFirst ==
  (storePhase = "ready" /\ out.op = "api")
    => /\ Len(out.rows) <= ApiMaxLimit
       /\ NewestFirst(out.rows)

AvgEqual(x, y) ==
  IF x.null \/ y.null THEN x.null /\ y.null ELSE x.num * y.den = y.num * x.den

StatsEqual(x, y) ==
  /\ x.total = y.total
  /\ x.distinct_hosts = y.distinct_hosts
  /\ AvgEqual(x.avg_duration, y.avg_duration)

\* C9: for the same sequence of recordHistory calls, getStats() and
\* getRecentHistory(limit) return equivalent results in sqlite mode and in
\* memory mode, the empty store and missing durations included.
C9_BackendsEquivalent ==
  /\ StatsEqual(StatsMemory(mem), StatsSqlite(dbRows))
  /\ \A n \in 0..MaxRecords :
       \A m \in RecentMemory(mem, Num(n)), q \in RecentSqlite(dbRows, Num(n)) :
         m.rows = q.rows

\* C10: in memory mode the list and the snapshot file each hold at most
\* the last 5000 entries (KeepLast, the scaled cap).
C10_FallbackCapped ==
  (storePhase = "ready" /\ mode = "memory")
    => /\ Len(mem) <= KeepLast
       /\ Len(jsonFile.entries) <= KeepLast

(***************************************************************************)
(* Properties of the proxy attempts.                                       *)
(***************************************************************************)
\* the request fails the router's validation: the target is missing or no
\* URL, the origin id decodes to nothing, or origin + rest is no URL
InvalidInput(request) ==
  \/ /\ request.route = "proxy"
     /\ \/ request.target = Null
        \/ request.target = <<>>
        \/ ~URL(request.target).ok
  \/ /\ request.route = "go"
     /\ request.oid # <<>>
     /\ LET origin == decodeOrigin(Codec(server), request.oid)
        IN  \/ origin = Null
            \/ origin = <<>>
            \/ ~URL(GoTarget(origin, request.rest)).ok

\* C1: every attempt on the rewriting path that passed validation has, when
\* it is finished, exactly one history entry, whatever the upstream events
\* were.
C1_ExactlyOneEntry ==
  (Finished /\ attempt.issued /\ ~attempt.raw) => Len(attempt.recorded) = 1

\* C2: when the upstream sends no response within the timeout, the client
\* gets a 504 and the attempt has exactly one entry, with a failure status.
C2_TimeoutIs504WithOneFailureEntry ==
  (Finished /\ attempt.issued /\ ~attempt.raw /\ attempt.timedOut)
    => /\ res.finished /\ res.statusCode = 504
       /\ Len(attempt.recorded) = 1
       /\ attempt.recorded[1] >= 500

\* C3: a raw attempt has, when it is finished, exactly one history entry,
\* whether the upstream answered or failed.
C3_RawExactlyOneEntry ==
  (Finished /\ attempt.issued /\ attempt.raw) => Len(attempt.recorded) = 1

C11_ModeFixedWhileServing ==
  mode = "sqlite" => mem = <<>>

C13_FailedSnapshotIsRetried ==
  [][/\ (~logged /\ logged')
          => /\ mem' = mem /\ jsonFile' = jsonFile /\ dirty /\ dirty'
             /\ mode' = mode /\ storePhase' = storePhase /\ restarts' = restarts
             /\ pc' = pc
     /\ logged' => (mode' = "memory" /\ dirty' /\ storePhase' = "ready")
     /\ (logged /\ ~logged' /\ restarts' = restarts)
          => /\ jsonFile' = [exists |-> TRUE, entries |-> Snapshot(mem)]
             /\ ~dirty' /\ mem' = mem]_vars

\* a write has failed after an earlier one succeeded: the file still holds
\* the older snapshot and the flag is set
C13_Witness ==
  /\ logged /\ dirty /\ mode = "memory" /\ storePhase = "ready"
  /\ jsonFile.exists /\ Len(jsonFile.entries) = 1 /\ Len(mem) = 2


\* the attributes of a cookie: what follows each ';', without the blanks
\* around it and in lower case
RECURSIVE SplitSemis(_)
SplitSemis(s) ==
  LET semis == {i \in 1..Len(s) : s[i] = 59}
      i     == CHOOSE m \in semis : \A n \in semis : m <= n
  IN  IF semis = {} THEN <<s>>
      ELSE <<SubSeq(s, 1, i - 1)>> \o SplitSemis(SubSeq(s, i + 1, Len(s)))

RECURSIVE Trim(_)
Trim(s) ==
  IF s # <<>> /\ IsSpace(s[1]) THEN Trim(Tail(s))
  ELSE IF s # <<>> /\ IsSpace(s[Len(s)]) THEN Trim(SubSeq(s, 1, Len(s) - 1))
  ELSE s

AttributesOf(c) ==
  {LowerCase(Trim(SplitSemis(c)[k])) : k \in 2..Len(SplitSemis(c))}

HasAttribute(c, name) ==
  \E a \in AttributesOf(c) : a = name \/ StartsWith(a, name \o <<61>>)

\* C14: a Set-Cookie value the client is sent has no Domain attribute, no
\* Secure attribute, and the attribute SameSite=Lax.
C14_CookieHostOnlyLax ==
  (hPhase # "received" /\ downCookie # Null)
    => /\ ~HasAttribute(downCookie, <<100, 111, 109, 97, 105, 110>>)
       /\ ~HasAttribute(downCookie, <<115, 101, 99, 117, 114, 101>>)
       /\ <<115, 97, 109, 101, 115, 105, 116, 101, 61, 108, 97, 120>> \in AttributesOf(downCookie)

\* the URL a reference denotes, without its fragment
Denoted(ref, base) ==
  LET u == UrlWithBase(ref, base)
  IN  IF u.ok THEN u.origin \o PathAndSearch(u.rest) ELSE Null

\* C15: the target the /go route resolves for a rewritten Location is the
\* URL the upstream's Location denotes relative to the target of the
\* request (the fragment, which no client sends, set aside).
C15_RedirectRoundTrips ==
  hPhase = "followed" => followed = Denoted(upLocation, hTarget)


\* C16: the target the /go route resolves for the Location that /proxy
\* answers with is the target URL itself, without its fragment.
C16_LegacyRedirectResolvesTarget ==
  (hPhase = "followed" /\ upLocation = Null)
    => followed = URL(hTarget).origin \o PathAndSearch(URL(hTarget).rest)


\* C17: the upstream connection of a request over TLS is made without the
\* certificate check only when the request carries insecure=1.
C17_ValidationOffOnlyWhenAsked ==
  (tlsConn # NoConn /\ tlsConn.options.https /\ ~tlsConn.rejectUnauthorized)
    => tlsReq.insecure = <<49>>


\* C18: a response that is not a page is passed on with the status the
\* upstream answered: once the rewriting path has begun to stream such a
\* body to the client, the status of the client's response is the
\* upstream's.
C18_NonHtmlKeepsStatus ==
  (/\ pc = "active" /\ ~attempt.raw /\ ~attempt.isHtml
   /\ attempt.up \in {"streaming", "closed"}
   /\ res.headersSent /\ res.body = "stream")
    => res.statusCode = attempt.status

\* C19: the body buffered for a page stays under a guard that an upstream
\* can exceed: for some guard below the most chunks an upstream sends, the
\* rewriting path never holds more chunks of a page than the guard.
C19_HtmlBufferUnderGuard ==
  \E guard \in 0..(MaxChunks - 1) :
    (pc = "active" /\ ~attempt.raw /\ attempt.isHtml) => attempt.chunks <= guard


\* the decompression or the rewriting of the page in hand fails
PageFails == DecompressThrows(server, page) \/ page.rewriteThrows

\* the client is sent the chunks as received under the upstream's status
\* and content-encoding
ServedAsReceived ==
  /\ served.answered /\ served.statusCode = page.status
  /\ served.bytes = "received" /\ ~served.rewritten
  /\ served.contentEncoding = page.enc

\* C20 as stated: whenever the decompression or the rewriting of a page
\* fails, the client is sent the bytes as received under the upstream's
\* status and content-encoding.
C20_AnyFailureServesReceived ==
  (served # NoServed /\ PageFails) => ServedAsReceived

\* C20: when the decompression fails, or the rewriting does in a
\* middleware variant, the client is sent the bytes as received under the
\* upstream's status and content-encoding; when the rewriting fails in the
\* native variant the client is sent the body as the handler decoded it
\* (decompressed when the header named a coding it decompresses), not
\* rewritten, without content-encoding, under the upstream's status.
C20_FailureStillServes ==
  (served # NoServed /\ PageFails)
    => IF DecompressThrows(server, page) \/ server # "native"
       THEN ServedAsReceived
       ELSE /\ served.answered /\ served.statusCode = page.status
            /\ HandledEncoding(server, page.enc) # <<>> => served.bytes = "decompressed"
            /\ ~served.rewritten
            /\ served.contentEncoding = Null /\ ~served.contentLength

\* a gzip header over bytes that are no gzip stream: the native variant
\* has answered with what it received
C20_Witness ==
  /\ server = "native" /\ page.enc = <<103, 122, 105, 112>> /\ page.coding = "corrupt"
  /\ served.answered /\ served.bytes = "received" /\ served.contentEncoding = <<103, 122, 105, 112>>

(***************************************************************************)
(* Properties of rewriteHtml.                                              *)
(***************************************************************************)
\* the value an HTML parser reads for the attribute whose '=' is at j - 1:
\* quoted up to the same quote, unquoted up to a blank or '>'
AttrValue(s, j) ==
  IF j <= Len(s) /\ s[j] \in Quotes
  THEN Only({SubSeq(s, j + 1, IF k = 0 THEN Len(s) ELSE k - 1) :
               k \in {NextIn(s, j + 1, {s[j]})}})
  ELSE Only({SubSeq(s, j, IF k = 0 THEN Len(s) ELSE k - 1) :
               k \in {NextIn(s, j, {32, 9, 10, 62})}})

\* the href values of the elements <a href=...> of a text, in its order
RECURSIVE HrefsFrom(_, _)
HrefsFrom(s, from) ==
  Only({IF i = 0 THEN <<>>
        ELSE <<AttrValue(s, i + 8)>> \o HrefsFrom(s, i + 8) :
          i \in {IF \A k \in from..Len(s) : ~At(s, k, <<60, 97, 32, 104, 114, 101, 102, 61>>) THEN 0
                 ELSE CHOOSE k \in from..Len(s) :
                        /\ At(s, k, <<60, 97, 32, 104, 114, 101, 102, 61>>)
                        /\ \A j \in from..(k - 1) : ~At(s, j, <<60, 97, 32, 104, 114, 101, 102, 61>>)}})

Hrefs(text) == Only({HrefsFrom(s, 1) : s \in {text}})

\* '/go/' + encodeOrigin(origin) + path
GoOf(origin, path) == <<47, 103, 111, 47>> \o encodeOrigin(Codec(server), origin) \o path

\* C21: rewriting the body of https://example.com/ that holds <a href="/x">,
\* <a href="https://other.org/y"> and <a href="#top"> yields the hrefs
\* /go/<encodeOrigin("https://example.com")>/x and
\* /go/<encodeOrigin("https://other.org")>/y, and leaves #top as it is.
C21_ScenarioHrefs ==
  (dPhase = "rewritten" /\ doc = ScenarioDoc /\ dBase = <<104, 116, 116, 112, 115, 58, 47, 47, 101, 120, 97, 109, 112, 108, 101, 46, 99, 111, 109, 47>>)
    => Hrefs(once) = <<GoOf(<<104, 116, 116, 112, 115, 58, 47, 47, 101, 120, 97, 109, 112, 108, 101, 46, 99, 111, 109>>, <<47, 120>>),
                       GoOf(<<104, 116, 116, 112, 115, 58, 47, 47, 111, 116, 104, 101, 114, 46, 111, 114, 103>>, <<47, 121>>),
                       <<35, 116, 111, 112>>>>

\* C22: rewriting is idempotent: rewriteHtml(rewriteHtml(d, u), u) is
\* rewriteHtml(d, u), for the attributes and for the injected markup.
C22_RewriteIdempotent ==
  dPhase = "again" => twice = once

\* the values the rewriting is to leave alone
LeftAlone(v) ==
  \/ StartsWith(v, <<35>>) \/ StartsWith(v, <<100, 97, 116, 97, 58>>)
  \/ StartsWith(v, <<106, 97, 118, 97, 115, 99, 114, 105, 112, 116, 58>>) \/ StartsWith(v, <<47, 103, 111, 47>>)

\* the link of a page that holds one: the last <a href> of the text
LastHref(text) == Only({h[Len(h)] : h \in {Hrefs(text)}})

\* C23: a value that is fragment-only, data:, javascript: or a /go/ path
\* stays as it is; any other value is rewritten to a /go/<id>/... path that
\* the /go handler resolves to the URL the value denotes relative to the
\* URL of the page.
C23_LinkResolves ==
  (dPhase = "rewritten" /\ doc # ScenarioDoc)
    => IF LeftAlone(LastHref(doc)) THEN LastHref(once) = LastHref(doc)
       ELSE /\ StartsWith(LastHref(once), <<47, 103, 111, 47>>)
            /\ GoResolve(PathAndSearch(LastHref(once))) = Denoted(LastHref(doc), dBase)

(***************************************************************************)
(* Properties of the upstream request's headers.                           *)
(***************************************************************************)
\* the names of the headers a sequence holds
NamesOf(headers) == {headers[i][1] : i \in 1..Len(headers)}

HopByHop ==
  {"connection", "upgrade", "proxy-authenticate", "proxy-authorization", "te",
   "trailers", "transfer-encoding"}

\* the User-Agent the version sets
BrowserAgent ==
  IF server = "native" THEN "Mozilla/5.0 AppleWebKit/537.36" ELSE "Mozilla/5.0 Chrome/120"

\* C24: on the rewriting path the headers sent upstream hold none of
\* Connection, Upgrade, Proxy-Authenticate, Proxy-Authorization, TE,
\* Trailers, Transfer-Encoding; Host is the target's host and User-Agent the
\* browser string whatever the client sent; the client's Range, when there
\* is one, is sent as it is.
C24_UpstreamHeaders ==
  upHeaders # <<>>
    => /\ NamesOf(upHeaders) \cap HopByHop = {}
       /\ HeaderOf(upHeaders, "host") = TargetHost
       /\ HeaderOf(upHeaders, "user-agent") = BrowserAgent
       /\ HeaderOf(upHeaders, "range") = HeaderOf(clientHeaders, "range")

(***************************************************************************)
(* Properties of the timeouts, of the end of the client's response, and of *)
(* the moment the entry is written.                                        *)
(***************************************************************************)
\* C25: when a timeout fires, the request timeout or the safety timer of
\* the buffered response, the upstream request or response of the attempt
\* is destroyed: no 'data' and no 'end' of it can follow.
C25_TimeoutDestroysUpstream ==
  [][(RequestTimeout \/ SafetyTimer) => attempt'.up \notin {"connecting", "streaming"}]_vars

\* C26: every proxy request that was accepted has its response to the
\* client ended in the end, whatever the upstream does.
C26_ResponseEnds ==
  (pc = "active" /\ attempt.issued) ~> res.finished

\* C27: when the client disconnects while its request is in flight, the
\* upstream request of the attempt is aborted, and the attempt still has
\* its entry in the history when it is over: one entry, no more.
C27_DisconnectAbortsAndRecords ==
  [][/\ ClientDisconnect => attempt'.up \notin {"connecting", "streaming"}
     /\ (Release /\ attempt.clientGone) => Len(attempt.recorded) = 1]_vars

(***************************************************************************)
(* Properties of the /go route's rest path.                                *)
(***************************************************************************)
\* the identifier and the rest of a path /go/<id><rest>
IdEnd(path) ==
  Only({IF k = 0 THEN Len(path) ELSE k - 1 : k \in {NextIn(path, 5, {47, 63})}})

RestOf(path) == SubSeq(path, IdEnd(path) + 1, Len(path))

\* rest begins with another segment /go/<id2>
BeginsNested(rest) ==
  StartsWith(rest, <<47, 103, 111, 47>>) /\ Len(rest) > 4 /\ rest[5] \notin {47, 63}

\* what follows that segment, '/' when nothing does
BehindNested(rest) ==
  Only({IF r = <<>> THEN <<47>> ELSE r : r \in {RestOf(rest)}})

\* C28: in the /go/<id>/<rest> handler a rest that begins with another
\* /go/<id2> segment loses that segment, the target being the origin and
\* what remains; any other rest, one that holds '/go/' further inside
\* too, is forwarded as it is.
C28_NestedSegmentCollapsed ==
  hPhase = "followed"
    => followed =
         decodeOrigin(Codec(server), SubSeq(downLocation, 5, IdEnd(downLocation)))
         \o (IF BeginsNested(RestOf(downLocation))
             THEN BehindNested(RestOf(downLocation))
             ELSE IF RestOf(downLocation) = <<>> THEN <<47>>
             ELSE IF RestOf(downLocation)[1] = 63 THEN <<47>> \o RestOf(downLocation)
             ELSE RestOf(downLocation))

(***************************************************************************)
(* Properties of a fault in one request, and of the moment the entry of    *)
(* an answered attempt is written.                                         *)
(***************************************************************************)
\* C29: an exception thrown while a proxy request is handled, in a
\* response's 'end' or in an error callback, does not end the process.
C29_ProcessSurvives == pc # "crashed"

\* C30: the entry of an attempt the upstream answers is written at the
\* upstream's 'end' and not before: none is there while only the headers,
\* or a part of the body, have arrived.
C30_EntryAfterEnd ==
  (pc = "active" /\ attempt.up = "streaming") => attempt.recorded = <<>>

(***************************************************************************)
(* Properties of what the client is sent for an attempt.                   *)
(***************************************************************************)
\* C31: every entry written for a proxy attempt holds the status the
\* client received for it, on the timeout's 504 and on the upstream
\* error's 502 too.
C31_EntryStatusIsClientStatus ==
  (Finished /\ attempt.issued /\ ~attempt.raw /\ res.finished)
    => \A i \in DOMAIN attempt.recorded : attempt.recorded[i] = res.statusCode

\* the handlers' calls on the client's response (write, writeHead, end) on
\* the rewriting path, each under the guard its handler has
WritesResponse ==
  /\ ~attempt.raw
  /\ \/ /\ \E status \in UpstreamStatuses, html \in BOOLEAN :
             UpstreamResponse(status, html)
        /\ server = "native" /\ ~attempt'.isHtml
     \/ UpstreamData /\ server # "native" /\ ~attempt.isHtml
     \/ UpstreamEnd /\ (server # "native" => ~attempt.ended)
     \/ ResponseError
          /\ (IF server = "native" THEN ~res.headersSent ELSE ~attempt.ended)
     \/ SafetyTimer /\ ~attempt.ended
     \/ (RequestError \/ SocketError) /\ (server = "native" => ~res.headersSent)
     \/ RequestTimeout /\ server = "native" /\ ~res.headersSent

\* C32: a proxied request delivers one outcome to its client at most, the
\* normal end, the 502 or the 504: once the client's response has ended,
\* no handler of the request (data, end, error, onError, safety timer)
\* writes to it or ends it again.
C32_OneOutcome ==
  [][(pc = "active" /\ res.finished) => ~WritesResponse]_vars

(***************************************************************************)
(* Properties of the store across its initialization, of the snapshot,     *)
(* and of the order of the entries.                                        *)
(***************************************************************************)
\* the result r of a read holds the entry e
Returned(r, e) == \E j \in DOMAIN r.rows : r.rows[j].id = e.id

\* C33: no entry is lost across the store's initialization: each entry
\* recordHistory was given before initHistoryStore completed is returned
\* by getRecentHistory once it has completed, in sqlite as in memory mode.
C33_InitKeepsEntries ==
  [][(InitSqlite \/ InitFallback)
       => \A i \in DOMAIN mem :
            \A r \in getRecentHistory(Num(MaxRecords))' : Returned(r, mem[i])]_vars

\* the snapshot file holds the last KeepLast entries of the list
FileIsSnapshot == jsonFile.entries = Snapshot(mem)

\* recordHistory in memory mode sets the flag, and persistMemory with the
\* flag down writes nothing and changes nothing
FlagSteps ==
  /\ ((\E k \in RecordKinds : Record(k[1], k[2])) /\ mode = "memory") => dirty'
  /\ ((\E ok \in BOOLEAN : PersistTick(ok)) /\ ~dirty)
       => UNCHANGED <<jsonFile, mem, dirty, mode, dbRows, logged>>

Stored == IF mode = "sqlite" THEN dbRows ELSE mem

C36_MethodAndBodyForwarded ==
  upReq.sent => upReq.method = clientReq.method /\ upReq.body = clientReq.body

(***************************************************************************)
(* Properties of ProxyBrowser: a tab's history, the tabs, and the loads    *)
(* that complete later.                                                    *)
(***************************************************************************)
\* the active tab, before and after a step
Active == tabs[activeTab + 1]

\* the view was left for /browser and is loaded anew
Reloaded == tabs' = StartTabs /\ loads' = {}

\* a step of the active tab's history: going back and forward add no entry
\* and take none away; navigating to a URL that is not the current entry
\* cuts the entries behind the current one and puts the URL there
HistorySteps ==
  /\ ((\E found \in BOOLEAN : goBack(found) \/ goForward(found)) /\ ~Reloaded)
       => Active'.history = Active.history
  /\ \A input \in Inputs :
       ((\E found \in BOOLEAN : navigate(input, found))
          /\ NavigateUrl(input) # Active.history[Active.historyIndex + 1]
          /\ ~Reloaded)
         => /\ Active'.history
                 = Append(SubSeq(Active.history, 1, Active.historyIndex + 1),
                          NavigateUrl(input))
            /\ Active'.historyIndex = Active.historyIndex + 1

\* C37: after any sequence of navigate, goBack, goForward, refresh, goHome
\* and openSettings on a tab, 0 <= historyIndex < history.length and
\* tab.url = history[historyIndex]; navigating to a new URL after going
\* back discards the forward entries, and goBack and goForward add none.
C37_HistoryIndexInRange ==
  /\ [](\A i \in 1..Len(tabs) :
          /\ tabs[i].historyIndex >= 0
          /\ tabs[i].historyIndex < Len(tabs[i].history)
          /\ tabs[i].url = tabs[i].history[tabs[i].historyIndex + 1])
  /\ [][HistorySteps]_vars

\* a tab with three entries has gone back to the second of them
C37_Witness ==
  /\ tabs # <<>>
  /\ Len(Active.history) >= 3 /\ Active.historyIndex = 1

\* the tab count is within 1..maxTabs and this.activeTab is an index of
\* this.tabs
TabsInRange == Len(tabs) >= 1 /\ Len(tabs) <= maxTabs /\ HasTab(tabs, activeTab)

\* closeTab for a tab other than the active one leaves the tab that was
\* active the active one
ClosingKeepsActive ==
  \A i \in 0..(maxTabs - 1) :
    (closeTab(i) /\ i # activeTab /\ Len(tabs) > 1) => Active'.el = Active.el

\* C38: closing a tab other than the active one leaves the same tab active,
\* and through createNewTab, closeTab and switchTab the tab count stays
\* within 1..maxTabs with activeTab an index of this.tabs
C38_ClosingKeepsActiveTab == []TabsInRange /\ [][ClosingKeepsActive]_vars

\* the tabs whose content element the load l was started in: the tab that
\* started it, while it is open
Starter(l) == {i \in 1..Len(tabs) : tabs[i].el = l.el}

\* every other tab is as it was
OthersKept(l) == \A i \in 1..Len(tabs) : tabs[i].el # l.el => tabs'[i] = tabs[i]

\* a load's completion sets the title and the loading state of the tab
\* that started it and of no other
CompletionUpdatesStarter ==
  \A l \in loads :
    /\ FrameLoaded(l, URL(l.url).host)
         => /\ OthersKept(l)
            /\ \A i \in Starter(l) :
                 tabs'[i].title = URL(l.url).host /\ ~tabs'[i].loading
    /\ FrameFailed(l)
         => OthersKept(l) /\ \A i \in Starter(l) : ~tabs'[i].loading
    /\ HistoryLoaded(l)
         => OthersKept(l) /\ \A i \in Starter(l) : tabs'[i].title = <<72, 105, 115, 116, 111, 114, 121>>
    /\ HistoryFailed(l) => OthersKept(l)

\* C39: an asynchronous completion (iframe onload/onerror, the answer to the
\* history page's fetch) updates the title and loading state of the tab
\* that started the load, whatever tabs were closed, created or switched to
\* in between
C39_CompletionUpdatesStarter == [][CompletionUpdatesStarter]_vars

\* the same for the loads of proxied pages alone
FrameUpdatesStarter ==
  [][\A l \in loads :
       (l.kind = "frame" /\ (FrameLoaded(l, URL(l.url).host) \/ FrameFailed(l)))
         => OthersKept(l) /\ \A i \in Starter(l) : ~tabs'[i].loading]_vars

\* and for the history page alone
HistoryUpdatesStarter ==
  [][\A l \in loads :
       HistoryLoaded(l)
         => OthersKept(l) /\ \A i \in Starter(l) : tabs'[i].title = <<72, 105, 115, 116, 111, 114, 121>>]_vars

=============================================================================
